---------------------------- MODULE Spec2Model ----------------------------
(***************************************************************************)
(* Workout tracker: the data-access layer of database.py (WorkoutDatabase   *)
(* over the Supabase tables routines, routine_exercises, workouts), the     *)
(* Streamlit handlers of app.py that call it (create routine, add exercise, *)
(* log workout, history, statistics) and the name normalizer _norm_name.    *)
(*                                                                         *)
(* Text values are sequences of one-character strings, so that strip,       *)
(* split, join, lower and slicing are computed as Python computes them.     *)
(***************************************************************************)
EXTENDS Integers, Sequences, FiniteSets, TLC

VARIABLES
    config,             \* the object load_config returned, shared by all sessions (st.cache_resource)
    config_yaml,        \* the file config.yaml of the working directory
    supabase,           \* WorkoutDatabase.supabase: "client", or "None" when __init__ failed
    routines,           \* table routines: set of rows
    routine_exercises,  \* table routine_exercises: set of rows
    workouts,           \* table workouts: set of rows
    serial,             \* BIGSERIAL counters of the three tables
    now,                \* wall clock: index into Clock (datetime.now())
    sess,               \* per browser session: position in the script run and what it fetched
    input,              \* input handed to a pure function (normalizer, aggregators)
    last                \* what the last operation did: its arguments, calls and results

vars == <<config, config_yaml, supabase, routines, routine_exercises, workouts, serial, now, sess, input, last>>

-----------------------------------------------------------------------------
(* Python None.  In a position that holds text or a list it is the token    *)
(* None (no text value is equal to it: text is made of one-character        *)
(* strings); in a position that holds a number or an id it is NULL.         *)
None == <<"None">>
NULL == -1

-----------------------------------------------------------------------------
(* Bounds of the model                                                     *)
MaxLen == 5         \* longest text handed to _norm_name in SpecNorm
MaxRoutines == 2    \* rows the routines table may hold
MaxExercises == 2   \* rows the routine_exercises table may hold
MaxWorkouts == 1    \* rows the workouts table may hold when the methods are called directly
MaxLogged == 3      \* rows the workouts table may hold when sessions log workouts
MaxSets == 2        \* "Number of Sets Completed" a session may enter per exercise
MaxRows == 3        \* longest fetched workout list handed to the aggregators in SpecAgg
MaxPeer == 3        \* longest second text compared with the text handed to _norm_name
MaxAccounts == 2    \* accounts the credentials mapping may hold
MaxShown == 3       \* rows the workouts table may hold when the View History page shows them

-----------------------------------------------------------------------------
(* Text                                                                    *)
Whitespace == {" ", "\t"}
Chars == {"A", "a", "b", " ", "\t"}

\* str.lower() on one character
LowerChar(c) ==
    CASE c = "A" -> "a"
      [] c = "B" -> "b"
      [] c = "S" -> "s"
      [] OTHER -> c

\* str.lower()
lower(s) == [i \in 1..Len(s) |-> LowerChar(s[i])]

RECURSIVE lstrip(_)
lstrip(s) ==
    IF s # <<>> /\ Head(s) \in Whitespace THEN lstrip(Tail(s)) ELSE s

RECURSIVE rstrip(_)
rstrip(s) ==
    IF s # <<>> /\ s[Len(s)] \in Whitespace THEN rstrip(SubSeq(s, 1, Len(s) - 1)) ELSE s

\* str.strip()
strip(s) == rstrip(lstrip(s))

\* the longest prefix of s without whitespace
RECURSIVE FirstWord(_)
FirstWord(s) ==
    IF s = <<>> \/ Head(s) \in Whitespace THEN <<>> ELSE <<Head(s)>> \o FirstWord(Tail(s))

\* str.split(): the words between runs of whitespace, no empty word
RECURSIVE split(_)
split(s) ==
    LET t == lstrip(s)
        w == FirstWord(t)
    IN  IF t = <<>> THEN <<>> ELSE <<w>> \o split(SubSeq(t, Len(w) + 1, Len(t)))

\* " ".join(words)
RECURSIVE join(_)
join(words) ==
    IF words = <<>> THEN <<>>
    ELSE IF Len(words) = 1 THEN words[1]
    ELSE words[1] \o <<" ">> \o join(Tail(words))

\* a plausible slip: collapse each pair of spaces once instead of splitting on runs
RECURSIVE ReplacePairs(_)
ReplacePairs(s) ==
    IF Len(s) < 2 THEN s
    ELSE IF s[1] \in Whitespace /\ s[2] \in Whitespace THEN <<" ">> \o ReplacePairs(SubSeq(s, 3, Len(s)))
    ELSE <<Head(s)>> \o ReplacePairs(Tail(s))

norm_name_replace_once(s) == lower(ReplacePairs(strip(IF s = None \/ s = <<>> THEN <<>> ELSE s)))

\* a slip: the key keeps the letter case
norm_name_keeping_case(s) == join(split(strip(IF s = None \/ s = <<>> THEN <<>> ELSE s)))

\* database.py:9  " ".join((s or "").strip().split()).lower()
_norm_name(s) == lower(join(split(strip(IF s = None \/ s = <<>> THEN <<>> ELSE s))))

\* every text over Chars of length at most n
Texts(n) == UNION {[1..k -> Chars] : k \in 0..n}


\* code points of the characters of a timestamp, for Python's and SQL's text order
CodePoint(c) ==
    CASE c = "-" -> 45
      [] c = "0" -> 48 [] c = "1" -> 49 [] c = "2" -> 50 [] c = "3" -> 51
      [] c = "4" -> 52 [] c = "5" -> 53 [] c = "6" -> 54 [] c = "7" -> 55
      [] c = "8" -> 56 [] c = "9" -> 57
      [] c = ":" -> 58
      [] c = "N" -> 78
      [] c = "T" -> 84
      [] c = "e" -> 101 [] c = "n" -> 110 [] c = "o" -> 111

\* a < b for two texts, lexicographic by code point
RECURSIVE StrLess(_, _)
StrLess(a, b) ==
    IF b = <<>> THEN FALSE
    ELSE IF a = <<>> THEN TRUE
    ELSE IF Head(a) # Head(b) THEN CodePoint(Head(a)) < CodePoint(Head(b))
    ELSE StrLess(Tail(a), Tail(b))

\* the rows of S as a list, in the strict total order Before
ToList(S, Before(_, _)) ==
    [i \in 1..Cardinality(S) |->
        CHOOSE r \in S : Cardinality({x \in S : Before(x, r)}) = i - 1]

Range(q) == {q[i] : i \in 1..Len(q)}

-----------------------------------------------------------------------------
(* The clock.  datetime.now().isoformat() gives "YYYY-MM-DDTHH:MM:SS"; the   *)
(* model's clock steps through these instants.                             *)
Day1 == <<"2", "0", "2", "3", "-", "1", "2", "-", "3", "1">>
Day2 == <<"2", "0", "2", "4", "-", "0", "1", "-", "1", "5">>
Day3 == <<"2", "0", "2", "4", "-", "0", "1", "-", "1", "6">>
Morning == <<"0", "9", ":", "3", "0", ":", "0", "0">>
Evening == <<"1", "8", ":", "0", "5", ":", "5", "9">>
CalendarDays == <<Day1, Day2, Day3>>
TimesOfDay == <<Morning, Evening>>

\* the timestamp of a time of day on a calendar day
Timestamp(d, t) == CalendarDays[d] \o <<"T">> \o TimesOfDay[t]

Clock == <<Timestamp(2, 1), Timestamp(2, 2), Timestamp(3, 1)>>

-----------------------------------------------------------------------------
(* Storage: the Supabase tables, with the schema of create_tables.         *)
Storage == [routines |-> routines, routine_exercises |-> routine_exercises,
            workouts |-> workouts, serial |-> serial]

\* ORDER BY day_name: the text order of the seven labels
DayOrder == <<"Friday", "Monday", "Saturday", "Sunday", "Thursday", "Tuesday", "Wednesday">>
DayRank(d) == CHOOSE i \in 1..Len(DayOrder) : DayOrder[i] = d

\* INSERT INTO routines: id from BIGSERIAL; user_id, routine_name and
\* day_name are NOT NULL
InsertRoutine(st, data) ==
    LET id == st.serial.routines + 1
        row == [id |-> id, user_id |-> data.user_id, routine_name |-> data.routine_name,
                day_name |-> data.day_name, description |-> data.description]
        not_null == data.user_id # "None" /\ data.routine_name # None
                    /\ data.day_name # "None"
    IN  IF not_null
        THEN [ok |-> TRUE, id |-> id,
              st |-> [st EXCEPT !.routines = @ \cup {row}, !.serial.routines = id]]
        ELSE [ok |-> FALSE, id |-> NULL, st |-> st]

\* the NOT NULL columns of routine_exercises
RoutineExerciseNotNull(data) ==
    /\ data.routine_id # NULL /\ data.exercise_name # None
    /\ data.target_muscle # "None" /\ data.sets # NULL

\* a variant: the table has no unique index on (routine_id, lower(exercise_name))
InsertRoutineExerciseUnindexed(st, data) ==
    LET id == st.serial.routine_exercises + 1
        row == [id |-> id, routine_id |-> data.routine_id,
                exercise_name |-> data.exercise_name, target_muscle |-> data.target_muscle,
                sets |-> data.sets, order_num |-> data.order_num]
        fk == \E r \in st.routines : r.id = data.routine_id
    IN  IF RoutineExerciseNotNull(data) /\ fk
        THEN [ok |-> TRUE, id |-> id,
              st |-> [st EXCEPT !.routine_exercises = @ \cup {row},
                                !.serial.routine_exercises = id]]
        ELSE [ok |-> FALSE, id |-> NULL, st |-> st]

\* INSERT INTO routine_exercises: the NOT NULL columns, the foreign key to
\* routines and the unique
\* index uniq_routine_exercise_name on (routine_id, lower(exercise_name))
InsertRoutineExercise(st, data) ==
    LET id == st.serial.routine_exercises + 1
        row == [id |-> id, routine_id |-> data.routine_id,
                exercise_name |-> data.exercise_name, target_muscle |-> data.target_muscle,
                sets |-> data.sets, order_num |-> data.order_num]
        fk == \E r \in st.routines : r.id = data.routine_id
        unique == \A e \in st.routine_exercises :
                    ~(e.routine_id = data.routine_id
                      /\ lower(e.exercise_name) = lower(data.exercise_name))
    IN  IF RoutineExerciseNotNull(data) /\ fk /\ unique
        THEN [ok |-> TRUE, id |-> id,
              st |-> [st EXCEPT !.routine_exercises = @ \cup {row},
                                !.serial.routine_exercises = id]]
        ELSE [ok |-> FALSE, id |-> NULL, st |-> st]

\* the constraints of a workouts row: NOT NULL columns and the two foreign keys
WorkoutRowOk(st, row) ==
    /\ row.user_id # "None"
    /\ row.exercise_name # None /\ row.target_muscle # "None"
    /\ row.sets # NULL /\ row.reps # NULL /\ row.weight # NULL
    /\ row.routine_id = NULL \/ \E r \in st.routines : r.id = row.routine_id
    /\ row.routine_exercise_id = NULL
         \/ \E e \in st.routine_exercises : e.id = row.routine_exercise_id

\* INSERT INTO workouts
InsertWorkout(st, data) ==
    LET id == st.serial.workouts + 1
        row == [id |-> id, user_id |-> data.user_id, date |-> data.date,
                routine_id |-> data.routine_id,
                routine_exercise_id |-> data.routine_exercise_id,
                exercise_name |-> data.exercise_name, target_muscle |-> data.target_muscle,
                sets |-> data.sets, reps |-> data.reps, weight |-> data.weight,
                notes |-> data.notes, effort_level |-> data.effort_level]
    IN  IF WorkoutRowOk(st, row)
        THEN [ok |-> TRUE, id |-> id,
              st |-> [st EXCEPT !.workouts = @ \cup {row}, !.serial.workouts = id]]
        ELSE [ok |-> FALSE, id |-> NULL, st |-> st]

\* UPDATE workouts SET ... WHERE id = workout_id
UpdateWorkout(st, workout_id, updates) ==
    LET set(w) == [c \in DOMAIN w |-> IF c \in DOMAIN updates THEN updates[c] ELSE w[c]]
        hit == {w \in st.workouts : w.id = workout_id}
    IN  IF \A w \in hit : WorkoutRowOk(st, set(w))
        THEN [ok |-> TRUE,
              st |-> [st EXCEPT !.workouts = (@ \ hit) \cup {set(w) : w \in hit}]]
        ELSE [ok |-> FALSE, st |-> st]

\* DELETE FROM workouts WHERE id = workout_id
DeleteWorkout(st, workout_id) ==
    [st EXCEPT !.workouts = {w \in @ : w.id # workout_id}]

\* a variant: the workouts' foreign keys are ON DELETE CASCADE too
DeleteRoutineCascading(st, routine_id) ==
    LET gone == {e.id : e \in {x \in st.routine_exercises : x.routine_id = routine_id}}
    IN  [st EXCEPT
            !.routines = {r \in @ : r.id # routine_id},
            !.routine_exercises = {e \in @ : e.routine_id # routine_id},
            !.workouts = {w \in @ : w.routine_id # routine_id
                                    /\ w.routine_exercise_id \notin gone}]

\* DELETE FROM routines WHERE id = routine_id: ON DELETE CASCADE to
\* routine_exercises, ON DELETE SET NULL on workouts
DeleteRoutine(st, routine_id) ==
    LET gone == {e.id : e \in {x \in st.routine_exercises : x.routine_id = routine_id}}
        present == \E r \in st.routines : r.id = routine_id
        unlink(w) == [w EXCEPT
                        !.routine_id = IF @ = routine_id THEN NULL ELSE @,
                        !.routine_exercise_id = IF @ \in gone THEN NULL ELSE @]
    IN  IF ~present THEN st
        ELSE [st EXCEPT
                !.routines = {r \in @ : r.id # routine_id},
                !.routine_exercises = {e \in @ : e.routine_id # routine_id},
                !.workouts = {unlink(w) : w \in @}]

\* ORDER BY <key>: the answers the storage may give for the rows S, every
\* arrangement of S in which the keys never decrease.  rank gives each row's
\* key; rows of equal key come in whatever order the storage finds them
OrderBy(S, rank) ==
    {q \in [1..Cardinality(S) -> S] :
        /\ \A i, j \in 1..Cardinality(S) : q[i] = q[j] => i = j
        /\ \A i, j \in 1..Cardinality(S) : i < j => rank[q[i]] <= rank[q[j]]}

\* .order("day_name")
ByDayName(S) == OrderBy(S, [r \in S |-> DayRank(r.day_name)])

\* .order("order_num")
ByOrderNum(S) == OrderBy(S, [r \in S |-> r.order_num])

\* .order("date", desc=True): a row's key is the number of later dates in S
ByDateDesc(S) ==
    OrderBy(S, [r \in S |-> Cardinality({d \in {x.date : x \in S} : StrLess(r.date, d)})])

\* .limit(n)
Limit(q, n) == IF Len(q) <= n THEN q ELSE SubSeq(q, 1, n)

-----------------------------------------------------------------------------
(* WorkoutDatabase (database.py).  Every method takes the storage st it    *)
(* acts on and the fault the storage collaborator raises during the call,  *)
(* and gives [ret, error, raised, st]: the value returned, the message      *)
(* st.error displayed in the except branch ("" when none), whether an       *)
(* exception reached the caller, and the storage afterwards.               *)

\* execute() raises: the client was never created (self.supabase is None, so
\* self.supabase.table raises AttributeError) or the call itself fails
Raises(fault) == supabase = "None" \/ fault

\* a slip: an insert without the try/except around it
create_routine_unguarded(st, user_id, routine_name, day_name, description, fault) ==
    IF Raises(fault)
    THEN [ret |-> NULL, error |-> "", raised |-> TRUE, st |-> st]
    ELSE LET ins == InsertRoutine(st, [user_id |-> user_id,
                        routine_name |-> _norm_name(routine_name),
                        day_name |-> day_name, description |-> description])
         IN  [ret |-> ins.id, error |-> "", raised |-> ~ins.ok, st |-> ins.st]

\* database.py:26-44
create_routine(st, user_id, routine_name, day_name, description, fault) ==
    IF Raises(fault)
    THEN [ret |-> NULL, error |-> "Error creating routine", raised |-> FALSE, st |-> st]
    ELSE LET ins == InsertRoutine(st, [user_id |-> user_id,
                        routine_name |-> _norm_name(routine_name),
                        day_name |-> day_name, description |-> description])
         IN  IF ins.ok
             THEN [ret |-> ins.id, error |-> "", raised |-> FALSE, st |-> ins.st]
             ELSE [ret |-> NULL, error |-> "Error creating routine", raised |-> FALSE,
                   st |-> st]

\* database.py:49-53: the answers the storage may give to the query of
\* get_user_routines
SelectUserRoutines(st, user_id) == ByDayName({r \in st.routines : r.user_id = user_id})

\* database.py:46-57.  data: the storage's answer, one of SelectUserRoutines
get_user_routines(st, user_id, data, fault) ==
    IF Raises(fault)
    THEN [ret |-> <<>>, error |-> "Error fetching routines", raised |-> FALSE, st |-> st]
    ELSE [ret |-> data, error |-> "", raised |-> FALSE, st |-> st]

\* a slip: the select's answer is not looked at, the call always goes on to
\* its insert
add_routine_exercise_select_unread(st, routine_id, exercise_name, target_muscle, sets, order_num, fault) ==
    LET data == [routine_id |-> routine_id, exercise_name |-> _norm_name(exercise_name),
                 target_muscle |-> target_muscle, sets |-> sets, order_num |-> order_num]
    IN  IF Raises(fault)
        THEN [done |-> TRUE, ret |-> NULL, error |-> "Error adding routine exercise",
              raised |-> FALSE, data |-> data, st |-> st]
        ELSE [done |-> FALSE, ret |-> NULL, error |-> "", raised |-> FALSE,
              data |-> data, st |-> st]

\* database.py:59-102 add_routine_exercise sends two requests, a select and,
\* when the select finds no row, an insert; requests of other callers may be
\* served between the two.  The call is modelled as its two halves.

\* database.py:76-87: the first request of add_routine_exercise, the select of
\* the rows the routine holds under the key.  done tells whether the call
\* returns here (the select raised, or a row was found); data is the row the
\* call goes on to insert otherwise
add_routine_exercise_select(st, routine_id, exercise_name, target_muscle, sets, order_num, fault) ==
    LET ex_key == _norm_name(exercise_name)
        IdOrder(a, b) == a.id < b.id
        \* the unique index leaves at most one row under a key
        existing == ToList({e \in st.routine_exercises :
                              e.routine_id = routine_id /\ e.exercise_name = ex_key}, IdOrder)
        data == [routine_id |-> routine_id, exercise_name |-> ex_key,
                 target_muscle |-> target_muscle, sets |-> sets, order_num |-> order_num]
    IN  IF Raises(fault)
        THEN [done |-> TRUE, ret |-> NULL, error |-> "Error adding routine exercise",
              raised |-> FALSE, data |-> data, st |-> st]
        ELSE IF existing # <<>>
        THEN [done |-> TRUE, ret |-> existing[1].id, error |-> "", raised |-> FALSE,
              data |-> data, st |-> st]
        ELSE [done |-> FALSE, ret |-> NULL, error |-> "", raised |-> FALSE,
              data |-> data, st |-> st]

\* database.py:89-102: the second request of add_routine_exercise, the insert,
\* on the table as it is when the request arrives
add_routine_exercise_insert(st, data, fault) ==
    LET ins == InsertRoutineExercise(st, data)
    IN  IF Raises(fault) \/ ~ins.ok
        THEN [ret |-> NULL, error |-> "Error adding routine exercise", raised |-> FALSE,
              st |-> st]
        ELSE [ret |-> ins.id, error |-> "", raised |-> FALSE, st |-> ins.st]

\* database.py:107-111: the answers the storage may give to the query of
\* get_routine_exercises
SelectRoutineExercises(st, routine_id) ==
    ByOrderNum({e \in st.routine_exercises : e.routine_id = routine_id})

\* database.py:104-115.  data: the storage's answer, one of SelectRoutineExercises
get_routine_exercises(st, routine_id, data, fault) ==
    IF Raises(fault)
    THEN [ret |-> <<>>, error |-> "Error fetching routine exercises", raised |-> FALSE, st |-> st]
    ELSE [ret |-> data, error |-> "", raised |-> FALSE, st |-> st]

\* database.py:117-124
delete_routine(st, routine_id, fault) ==
    IF Raises(fault)
    THEN [ret |-> FALSE, error |-> "Error deleting routine", raised |-> FALSE, st |-> st]
    ELSE [ret |-> TRUE, error |-> "", raised |-> FALSE, st |-> DeleteRoutine(st, routine_id)]

\* database.py:193-205: the row add_workout builds; clock is what
\* datetime.now().isoformat() reads at line 195, before the insert is sent
add_workout_data(clock, user_id, exercise_name, target_muscle, sets, reps, weight, notes, effort_level, routine_id, routine_exercise_id) ==
    [user_id |-> user_id, date |-> clock,
     exercise_name |-> _norm_name(exercise_name),
     target_muscle |-> target_muscle, sets |-> sets, reps |-> reps,
     weight |-> weight, notes |-> notes, effort_level |-> effort_level,
     routine_id |-> routine_id, routine_exercise_id |-> routine_exercise_id]

\* database.py:206-210: the insert of the row built, served by the storage
\* in the state st it has when the request arrives, and the call's return
add_workout_insert(st, data, fault) ==
    LET ins == InsertWorkout(st, data)
    IN  IF Raises(fault) \/ ~ins.ok
        THEN [ret |-> FALSE, error |-> "Error adding workout", raised |-> FALSE, st |-> st]
        ELSE [ret |-> TRUE, error |-> "", raised |-> FALSE, st |-> ins.st]

\* database.py:215-219: the answers the storage may give to the query of
\* get_workouts_by_muscle
SelectWorkoutsByMuscle(st, user_id, muscle) ==
    ByDateDesc({w \in st.workouts : w.user_id = user_id /\ w.target_muscle = muscle})

\* database.py:212-223.  data: the storage's answer, one of SelectWorkoutsByMuscle
get_workouts_by_muscle(st, user_id, muscle, data, fault) ==
    IF Raises(fault)
    THEN [ret |-> <<>>, error |-> "Error fetching workouts by muscle", raised |-> FALSE, st |-> st]
    ELSE [ret |-> data, error |-> "", raised |-> FALSE, st |-> st]

\* database.py:228-232: the answers the storage may give to the query of
\* get_workouts_by_exercise
SelectWorkoutsByExercise(st, user_id, exercise) ==
    ByDateDesc({w \in st.workouts :
                  w.user_id = user_id /\ w.exercise_name = _norm_name(exercise)})

\* database.py:225-236.  data: the storage's answer, one of SelectWorkoutsByExercise
get_workouts_by_exercise(st, user_id, exercise, data, fault) ==
    IF Raises(fault)
    THEN [ret |-> <<>>, error |-> "Error fetching workouts by exercise", raised |-> FALSE, st |-> st]
    ELSE [ret |-> data, error |-> "", raised |-> FALSE, st |-> st]

\* a slip: the updates are stored as given
update_workout_as_given(st, workout_id, updates, fault) ==
    LET upd == UpdateWorkout(st, workout_id, updates)
    IN  IF Raises(fault) \/ ~upd.ok
        THEN [ret |-> FALSE, error |-> "Error updating workout", raised |-> FALSE, st |-> st]
        ELSE [ret |-> TRUE, error |-> "", raised |-> FALSE, st |-> upd.st]

\* database.py:238-246.  updates: the dict of new column values
update_workout(st, workout_id, updates, fault) ==
    LET normalized == IF "exercise_name" \in DOMAIN updates
                      THEN [updates EXCEPT !.exercise_name = _norm_name(@)]
                      ELSE updates
        upd == UpdateWorkout(st, workout_id, normalized)
    IN  IF Raises(fault) \/ ~upd.ok
        THEN [ret |-> FALSE, error |-> "Error updating workout", raised |-> FALSE, st |-> st]
        ELSE [ret |-> TRUE, error |-> "", raised |-> FALSE, st |-> upd.st]

\* database.py:248-254
delete_workout(st, workout_id, fault) ==
    IF Raises(fault)
    THEN [ret |-> FALSE, error |-> "Error deleting workout", raised |-> FALSE, st |-> st]
    ELSE [ret |-> TRUE, error |-> "", raised |-> FALSE, st |-> DeleteWorkout(st, workout_id)]

\* database.py:278-282: the answers the storage may give to the query of
\* get_user_workouts
SelectUserWorkouts(st, user_id, limit) ==
    {Limit(q, limit) : q \in ByDateDesc({w \in st.workouts : w.user_id = user_id})}

\* database.py:275-286.  data: the storage's answer, one of SelectUserWorkouts
get_user_workouts(st, user_id, limit, data, fault) ==
    IF Raises(fault)
    THEN [ret |-> <<>>, error |-> "Error getting workouts", raised |-> FALSE, st |-> st]
    ELSE [ret |-> data, error |-> "", raised |-> FALSE, st |-> st]

-----------------------------------------------------------------------------
(* The handlers of app.py, as functions of the storage, of what the script  *)
(* run fetched and of the form's inputs.  A handler that sends one request  *)
(* gives the message shown, the data-access calls it made and the storage   *)
(* afterwards; a handler that sends several is given request by request.    *)

\* the record of one data-access call: fault tells whether the storage
\* collaborator raised during it (no client, or the call failed)
Call(fn, fault, r) ==
    [fn |-> fn, fault |-> fault, ret |-> r.ret, error |-> r.error, raised |-> r.raised]

\* a slip: the test on the id is left out
TruthyAlways(id) == TRUE

\* Python truthiness of an id
Truthy(id) == id # NULL /\ id # 0

DayAlreadyScheduled == "You already have a routine for this day! Each day can only have ONE routine."

\* a slip: the day test compares the routine's name instead of its day
create_routine_form_by_name(st, fetched, username, routine_name, day_name, description, fault) ==
    LET taken == \E i \in 1..Len(fetched) : fetched[i].routine_name = routine_name
        r == create_routine(st, username, routine_name, day_name, description, fault)
    IN  IF taken
        THEN [message |-> DayAlreadyScheduled, calls |-> <<>>, st |-> st]
        ELSE [message |-> IF Truthy(r.ret) THEN "Routine created" ELSE r.error,
              calls |-> <<Call("create_routine", Raises(fault), r)>>, st |-> r.st]

\* a variant: the day is looked up in the table at the
\* time of the submission instead of in the list the script run fetched
create_routine_form_rereading(st, fetched, username, routine_name, day_name, description, fault) ==
    LET day_already_has_routine ==
            \E r \in st.routines : r.user_id = username /\ r.day_name = day_name
        r == create_routine(st, username, routine_name, day_name, description, fault)
    IN  IF day_already_has_routine
        THEN [message |-> DayAlreadyScheduled, calls |-> <<>>, st |-> st]
        ELSE [message |-> IF Truthy(r.ret) THEN "Routine created" ELSE r.error,
              calls |-> <<Call("create_routine", Raises(fault), r)>>, st |-> r.st]

\* app.py:151-166, the body under "if submit and routine_name"
create_routine_form(st, fetched, username, routine_name, day_name, description, fault) ==
    LET day_already_has_routine == \E i \in 1..Len(fetched) : fetched[i].day_name = day_name
        r == create_routine(st, username, routine_name, day_name, description, fault)
    IN  IF day_already_has_routine
        THEN [message |-> DayAlreadyScheduled, calls |-> <<>>, st |-> st]
        ELSE [message |-> IF Truthy(r.ret) THEN "Routine created" ELSE r.error,
              calls |-> <<Call("create_routine", Raises(fault), r)>>, st |-> r.st]

\* app.py:202-205, what the add_exercise_form handler does with the value
\* add_routine_exercise returned: r is the half of the call that returned
add_exercise_form(r) ==
    [message |-> IF Truthy(r.ret) THEN "Added" ELSE r.error, rerun |-> Truthy(r.ret)]

\* app.py:274-280: all_set_details, one entry per fetched exercise, keyed by its id
AllSetDetails(selected_routine, exercises, set_details, notes) ==
    [i \in 1..Len(exercises) |->
        [ex_id |-> exercises[i].id,
         exercise_name |-> exercises[i].exercise_name,
         target_muscle |-> exercises[i].target_muscle,
         sets |-> set_details[i],
         notes |-> notes[i],
         routine_id |-> selected_routine.id]]

\* the (entry, set) pairs in the order the two loops of app.py:288-289 visit them
RECURSIVE LoopOrder(_)
LoopOrder(all_set_details) ==
    IF all_set_details = <<>> THEN <<>>
    ELSE LET details == Head(all_set_details)
         IN  [k \in 1..Len(details.sets) |-> [details |-> details, set_data |-> details.sets[k]]]
             \o LoopOrder(Tail(all_set_details))

\* app.py:290-300 with database.py:193-205: the row the pass's add_workout
\* call builds, with the clock read at that moment
LogOneSet(clock, username, details, set_data) ==
    add_workout_data(clock, username, details.exercise_name, details.target_muscle, 1,
                     set_data.reps, set_data.weight, details.notes, set_data.effort,
                     details.routine_id, NULL)

\* a slip: the loop gives up at the first insert that fails
LogLoopStopping(st, run, data, fault) ==
    LET r == add_workout_insert(st, data, fault)
    IN  [st |-> r.st,
         run |-> [run EXCEPT !.todo = IF r.ret THEN Tail(@) ELSE <<>>,
                             !.total_sets_logged = IF r.ret THEN @ + 1 ELSE @,
                             !.calls = Append(@, Call("add_workout", Raises(fault), r))]]

\* app.py:288-302 with database.py:206-210: the end of one pass of the loops
\* over all_set_details and its sets: the insert of the row data the pass's
\* add_workout call built, and the counter.  run holds the handler's
\* variables: the passes still to make, the counter total_sets_logged,
\* len(all_set_details) and the calls made so far
LogLoop(st, run, data, fault) ==
    LET r == add_workout_insert(st, data, fault)
    IN  [st |-> r.st,
         run |-> [run EXCEPT !.todo = Tail(@),
                             !.total_sets_logged = IF r.ret THEN @ + 1 ELSE @,
                             !.calls = Append(@, Call("add_workout", Raises(fault), r))]]

\* a slip: one pass per exercise, for its first set, instead of one per set
log_this_workout_per_exercise(all_set_details) ==
    [todo |-> [i \in 1..Len(all_set_details) |->
                 [details |-> all_set_details[i], set_data |-> all_set_details[i].sets[1]]],
     total_sets_logged |-> 0, exercises |-> Len(all_set_details), calls |-> <<>>]

\* app.py:285-289, the "Log This Workout" button is pressed: the counter
\* starts at 0 and the loops start
log_this_workout(all_set_details) ==
    [todo |-> LoopOrder(all_set_details), total_sets_logged |-> 0,
     exercises |-> Len(all_set_details), calls |-> <<>>]

\* app.py:304: the message shown when the loops are over
Logged(run) == <<"Logged", run.total_sets_logged, "sets from", run.exercises, "exercises">>

-----------------------------------------------------------------------------
(* The View History page (app.py:313-384): the grouping of the fetched      *)
(* workouts by routine, date and exercise.                                  *)

\* str(v) of a date value
str(v) == IF v = None THEN <<"N", "o", "n", "e">> ELSE v

\* s[:n]
Prefix(s, n) == SubSeq(s, 1, IF Len(s) < n THEN Len(s) ELSE n)

\* a slip: the bucket keeps the hour of the timestamp
date_str_hour(w) == Prefix(str(w.date), 13)

\* app.py:328  date_str = str(w['date'])[:10]
date_str(w) == Prefix(str(w.date), 10)

\* the keys of a dict, in insertion order, given the keys of the insertions
RECURSIVE Keys(_)
Keys(q) ==
    IF q = <<>> THEN <<>>
    ELSE LET r == Keys(SubSeq(q, 1, Len(q) - 1))
         IN  IF q[Len(q)] \in Range(r) THEN r ELSE Append(r, q[Len(q)])

\* sorted(keys, reverse=True) on texts
SortedReverse(keys) == ToList(Range(keys), LAMBDA a, b : StrLess(b, a))

\* app.py:324-346: grouped[routine_id][date_str][exercise_name], routines and
\* exercises in insertion order, the dates of a routine newest first
Grouped(all_workouts) ==
    LET linked(w) == Truthy(w.routine_id)
        kept == SelectSeq(all_workouts, linked)
        KeysOf(q, f(_)) == Keys([i \in 1..Len(q) |-> f(q[i])])
        rid(w) == w.routine_id
        name(w) == w.exercise_name
        Exercises(in_date) ==
            LET names == KeysOf(in_date, name)
            IN  [k \in 1..Len(names) |->
                    LET of_name(w) == w.exercise_name = names[k]
                    IN  [exercise_name |-> names[k], sets |-> SelectSeq(in_date, of_name)]]
        Dates(in_routine) ==
            LET dates == SortedReverse(KeysOf(in_routine, date_str))
            IN  [j \in 1..Len(dates) |->
                    LET on_date(w) == date_str(w) = dates[j]
                    IN  [workout_date |-> dates[j],
                         exercises |-> Exercises(SelectSeq(in_routine, on_date))]]
        ids == KeysOf(kept, rid)
    IN  [i \in 1..Len(ids) |->
            LET of_routine(w) == w.routine_id = ids[i]
            IN  [routine_id |-> ids[i], dates |-> Dates(SelectSeq(kept, of_routine))]]

\* app.py:313-384: what the page shows for the fetched workouts
view_history(all_workouts) ==
    IF all_workouts = <<>> THEN [message |-> "No workouts logged yet!", grouped |-> <<>>]
    ELSE IF Grouped(all_workouts) = <<>>
    THEN [message |-> "No grouped data available", grouped |-> <<>>]
    ELSE [message |-> "", grouped |-> Grouped(all_workouts)]

\* the rows shown in one date bucket of the grouped history
RowsInBucket(b) == UNION {Range(b.exercises[e].sets) : e \in DOMAIN b.exercises}

\* app.py:353-371: the rows shown anywhere in the grouped history, each with
\* its delete button
RowsInHistory(grouped) ==
    UNION {UNION {RowsInBucket(grouped[r].dates[d]) : d \in DOMAIN grouped[r].dates} :
             r \in DOMAIN grouped}

-----------------------------------------------------------------------------
(* The Statistics page (app.py:386-406): the totals pandas computes over    *)
(* the fetched workouts.  A stored sets, reps or weight value is a number,  *)
(* NULL, or TextValue: a text such as "ten" in the place of a number.       *)
TextValue == -2

\* one value of a column: an int, a float, a str, or missing (None / NaN)
Cell(v) ==
    IF v = NULL THEN [k |-> "na", v |-> 0]
    ELSE IF v = TextValue THEN [k |-> "str", v |-> 0]
    ELSE [k |-> "int", v |-> v]

\* pd.DataFrame(all_workouts)[c]: a column of numbers with a missing value is
\* float64, a column with a text keeps its Python objects
Column(all_workouts, c) ==
    LET cells == [i \in 1..Len(all_workouts) |-> Cell(all_workouts[i][c])]
        text == \E i \in DOMAIN cells : cells[i].k = "str"
        missing == \E i \in DOMAIN cells : cells[i].k = "na"
    IN  [i \in DOMAIN cells |->
            IF ~text /\ missing /\ cells[i].k = "int"
            THEN [k |-> "float", v |-> cells[i].v]
            ELSE cells[i]]

\* a slip: the values are added instead of multiplied
MulAdding(a, b) ==
    IF a.k = "na" \/ b.k = "na" THEN [k |-> "na", v |-> 0]
    ELSE IF a.k = "str" \/ b.k = "str"
    THEN [k |-> "raise", v |-> 0]
    ELSE [k |-> IF a.k = "int" /\ b.k = "int" THEN "int" ELSE "float", v |-> a.v + b.v]

\* a * b on one row of two columns: missing if either is missing; a text
\* times an int is the text repeated; a text times a text or a float is a
\* TypeError
Mul(a, b) ==
    IF a.k = "na" \/ b.k = "na" THEN [k |-> "na", v |-> 0]
    ELSE IF a.k = "str" \/ b.k = "str"
    THEN IF a.k = "int" \/ b.k = "int"
         THEN [k |-> "str", v |-> 0]
         ELSE [k |-> "raise", v |-> 0]
    ELSE [k |-> IF a.k = "int" /\ b.k = "int" THEN "int" ELSE "float", v |-> a.v * b.v]

\* x * y on two columns: raises if a row raises
ColMul(x, y) ==
    LET cells == [i \in DOMAIN x |-> Mul(x[i], y[i])]
    IN  IF \E i \in DOMAIN cells : cells[i].k = "raise"
        THEN [raised |-> TRUE, cells |-> <<>>]
        ELSE [raised |-> FALSE, cells |-> cells]

\* the sum of a list of numbers
Sum(q) ==
    LET RECURSIVE S(_)
        S(k) == IF k = 0 THEN 0 ELSE q[k] + S(k - 1)
    IN  S(Len(q))

\* column.sum(): missing values are skipped (taken as 0); texts alone are
\* concatenated, a text added to a number is a TypeError
ColSum(cells) ==
    IF \E i \in DOMAIN cells : cells[i].k = "str"
    THEN IF \A i \in DOMAIN cells : cells[i].k = "str"
         THEN [k |-> "str", v |-> 0]
         ELSE [k |-> "raise", v |-> 0]
    ELSE [k |-> "num", v |-> Sum([i \in DOMAIN cells |-> cells[i].v])]

\* the value st.metric is given
Shown(total) == IF total.k = "str" THEN TextValue ELSE total.v

DigitChars == <<"0", "1", "2", "3", "4", "5", "6", "7", "8", "9">>

RECURSIVE Digits(_)
Digits(n) ==
    IF n < 10 THEN <<DigitChars[n + 1]>> ELSE Digits(n \div 10) \o <<DigitChars[(n % 10) + 1]>>

\* f"{n:,.0f}" of a whole number: groups of three digits separated by commas
RECURSIVE Format(_)
Format(n) ==
    IF n < 1000 THEN Digits(n)
    ELSE Format(n \div 1000)
         \o <<",", DigitChars[((n \div 100) % 10) + 1], DigitChars[((n \div 10) % 10) + 1],
              DigitChars[(n % 10) + 1]>>

\* app.py:389-406: the four metrics, in the order the page computes them;
\* shown counts the metrics displayed before an exception ended the run
statistics(all_workouts) ==
    LET sets == Column(all_workouts, "sets")
        reps == Column(all_workouts, "reps")
        weight == Column(all_workouts, "weight")
        total_sets == ColSum(sets)
        sets_reps == ColMul(sets, reps)
        total_reps == ColSum(sets_reps.cells)
        volume == ColMul(sets_reps.cells, weight)
        total_volume == ColSum(volume.cells)
        page == [message |-> "", shown |-> 0, raised |-> FALSE, total_workouts |-> NULL,
                 total_sets |-> NULL, total_reps |-> NULL, total_volume |-> None]
        one == [page EXCEPT !.shown = 1, !.total_workouts = Len(all_workouts)]
        two == [one EXCEPT !.shown = 2, !.total_sets = Shown(total_sets)]
        three == [two EXCEPT !.shown = 3, !.total_reps = Shown(total_reps)]
        four == [three EXCEPT !.shown = 4, !.total_volume = Format(total_volume.v)]
    IN  IF all_workouts = <<>>
        THEN [page EXCEPT !.message = "Log some workouts to see your statistics!"]
        ELSE IF total_sets.k = "raise" THEN [one EXCEPT !.raised = TRUE]
        ELSE IF sets_reps.raised \/ total_reps.k = "raise" THEN [two EXCEPT !.raised = TRUE]
        ELSE IF volume.raised \/ total_volume.k # "num" THEN [three EXCEPT !.raised = TRUE]
        ELSE four

-----------------------------------------------------------------------------
(* Sign Up (app.py:437-474): the registration form's submit handler on the  *)
(* credentials mapping config['credentials']['usernames'].                  *)

\* str.upper() on one character
UpperChar(c) ==
    CASE c = "a" -> "A"
      [] c = "b" -> "B"
      [] c = "s" -> "S"
      [] OTHER -> c

IsLetter(c) == LowerChar(c) # c \/ UpperChar(c) # c

\* s.replace('_', ' ')
ReplaceUnderscores(s) == [i \in DOMAIN s |-> IF s[i] = "_" THEN " " ELSE s[i]]

\* str.title(): a letter after a non-letter (or at the start) in upper case,
\* every other letter in lower case
Title(s) ==
    [i \in DOMAIN s |->
        IF i = 1 \/ ~IsLetter(s[i - 1]) THEN UpperChar(s[i]) ELSE LowerChar(s[i])]

FillInAllFields == "Please fill in all fields!"
PasswordsDoNotMatch == "Passwords do not match!"
PasswordTooShort == "Password must be at least 6 characters!"
UsernameAlreadyExists == "Username already exists!"
AccountCreated == "Account created successfully!"

ErrorSavingConfig == "Error saving config"

\* app.py:446-453 and 455-459: the validations of a submission, the username
\* looked up last in the credentials mapping usernames as it is when line 452
\* reads it; a submission that passes them all gets the entry to store and
\* the message shown at line 463
sign_up(usernames, new_email, new_username, new_password, new_password_confirm) ==
    IF new_email = <<>> \/ new_username = <<>> \/ new_password = <<>>
    THEN [rejected |-> TRUE, message |-> FillInAllFields]
    ELSE IF strip(new_password) # strip(new_password_confirm)
    THEN [rejected |-> TRUE, message |-> PasswordsDoNotMatch]
    ELSE IF Len(new_password) < 6
    THEN [rejected |-> TRUE, message |-> PasswordTooShort]
    ELSE IF new_username \in DOMAIN usernames
    THEN [rejected |-> TRUE, message |-> UsernameAlreadyExists]
    ELSE [rejected |-> FALSE, message |-> AccountCreated,
          entry |-> [email |-> new_email,
                     name |-> Title(ReplaceUnderscores(new_username)),
                     password |-> new_password]]

\* app.py:455  config['credentials']['usernames'][new_username] = {...}: the
\* assignment sets the key, whether the mapping has it by then or not
StoreEntry(usernames, new_username, entry) ==
    [u \in DOMAIN usernames \cup {new_username} |->
        IF u = new_username THEN entry ELSE usernames[u]]

\* code points of the characters of the usernames entered
KeyCodePoint(c) ==
    CASE c = " " -> 32
      [] c = "A" -> 65 [] c = "B" -> 66
      [] c = "_" -> 95
      [] c = "a" -> 97 [] c = "b" -> 98 [] c = "s" -> 115

\* a < b for two keys of a mapping, as Python orders str
RECURSIVE KeyLess(_, _)
KeyLess(a, b) ==
    IF b = <<>> THEN FALSE
    ELSE IF a = <<>> THEN TRUE
    ELSE IF Head(a) # Head(b) THEN KeyCodePoint(Head(a)) < KeyCodePoint(Head(b))
    ELSE KeyLess(Tail(a), Tail(b))

\* sorted(keys)
RECURSIVE SortedKeys(_)
SortedKeys(keys) ==
    IF keys = {} THEN <<>>
    ELSE LET k == CHOOSE x \in keys : \A y \in keys \ {x} : KeyLess(x, y)
         IN  <<k>> \o SortedKeys(keys \ {k})

\* yaml.dump of a str: plain, or between single quotes when it is empty or
\* starts or ends with a space
YamlScalar(v) ==
    IF v = <<>> \/ Head(v) = " " \/ v[Len(v)] = " "
    THEN <<"'">> \o v \o <<"'">>
    ELSE v

Spaces(n) == [i \in 1..n |-> " "]

\* one "key: value" line of a block mapping at an indentation
YamlLine(indent, key, v) ==
    Spaces(indent) \o key \o <<":", " ">> \o YamlScalar(v) \o <<"\n">>

\* one "key:" line that opens a nested block mapping
YamlOpen(indent, key) == Spaces(indent) \o YamlScalar(key) \o <<":", "\n">>

\* the block of one account under credentials.usernames, its keys sorted
YamlAccount(u, entry) ==
    YamlOpen(4, u)
    \o YamlLine(6, <<"e", "m", "a", "i", "l">>, entry.email)
    \o YamlLine(6, <<"n", "a", "m", "e">>, entry.name)
    \o YamlLine(6, <<"p", "a", "s", "s", "w", "o", "r", "d">>, entry.password)

RECURSIVE YamlAccounts(_, _)
YamlAccounts(keys, usernames) ==
    IF keys = <<>> THEN <<>>
    ELSE YamlAccount(Head(keys), usernames[Head(keys)])
         \o YamlAccounts(Tail(keys), usernames)

\* app.py:42  yaml.dump(config, file): the text of the configuration in
\* block style, the keys of every mapping sorted
Dump(cfg) ==
    YamlOpen(0, <<"c", "o", "o", "k", "i", "e">>)
    \o YamlLine(2, <<"e", "x", "p", "i", "r", "y", "_", "d", "a", "y", "s">>, cfg.cookie.expiry_days)
    \o YamlLine(2, <<"k", "e", "y">>, cfg.cookie.key)
    \o YamlLine(2, <<"n", "a", "m", "e">>, cfg.cookie.name)
    \o YamlOpen(0, <<"c", "r", "e", "d", "e", "n", "t", "i", "a", "l", "s">>)
    \o YamlOpen(2, <<"u", "s", "e", "r", "n", "a", "m", "e", "s">>)
    \o YamlAccounts(SortedKeys(DOMAIN cfg.usernames), cfg.usernames)

\* config.yaml of the working directory before anything has written it
NoFile == [exists |-> FALSE, text |-> <<>>]

\* a write of text at offset 0 of a file that holds existing
Overwrite(existing, text) ==
    text \o SubSeq(existing, Len(text) + 1, Len(existing))

\* app.py:41  open('config.yaml', 'w'): the file is created or truncated;
\* when open raises, the file stays as it was and save_config reports the
\* error (app.py:43-44)
save_config_open(file, fault) ==
    IF fault
    THEN [file |-> file, error |-> ErrorSavingConfig]
    ELSE [file |-> [exists |-> TRUE, text |-> <<>>], error |-> ""]

\* app.py:42-44: yaml.dump writes the text of cfg, the mapping as it is in
\* memory by now, from the start of the file opened.  accepted is the number
\* of characters the file system takes: when it is less than the text, the
\* write raises after that much has gone out, and save_config reports it
save_config_dump(file, cfg, accepted) ==
    LET text == Dump(cfg)
    IN  [file |-> [exists |-> TRUE,
                   text |-> Overwrite(file.text, Prefix(text, accepted))],
         error |-> IF accepted < Len(text) THEN ErrorSavingConfig ELSE ""]

-----------------------------------------------------------------------------
(* Inputs                                                                  *)
Sessions == {"s1", "s2"}
\* st.session_state['username'] of each session: two tabs of one user
Username == [s \in Sessions |-> "alice"]
Users == {"alice", "bob"}
Days == {"Monday", "Friday"}
RoutineNameInputs == {<<"A", " ", " ", "b">>, <<" ">>}
ExerciseInputs ==
    {[name |-> <<"A">>, muscle |-> "Chest"],
     [name |-> <<" ", "a">>, muscle |-> "Chest"],
     [name |-> <<"b">>, muscle |-> "Legs"]}
SetInputs ==
    {[reps |-> 10, weight |-> 20, effort |-> "Medium"],
     [reps |-> 8, weight |-> 0, effort |-> "Hard"]}
\* the set lists a session may enter for one exercise: 1..MaxSets sets
SetLists == UNION {[1..n -> SetInputs] : n \in 1..MaxSets}
UpdateInputs ==
    {[exercise_name |-> <<"B", " ", " ", "a">>], [reps |-> 12], [reps |-> NULL]}
\* value=3 of "Number of Sets" in the add_exercise_form
DefaultSets == 3
\* limit=1000 of the pages' get_user_workouts calls
PageLimit == 1000

\* a workouts row of user alice as the storage collaborator returns it
StoredRow(id, routine_id, d, t, exercise_name, sets, reps, weight) ==
    [id |-> id, user_id |-> "alice", date |-> Timestamp(d, t), routine_id |-> routine_id,
     routine_exercise_id |-> NULL, exercise_name |-> exercise_name,
     target_muscle |-> "Chest", sets |-> sets, reps |-> reps, weight |-> weight,
     notes |-> "", effort_level |-> "Medium"]

\* the rows the workouts table may hold when the pages aggregate them.  The
\* program does not create the table (create_tables prints the SQL for the
\* operator to run), so a value may be missing or text.
StoredRows ==
    {StoredRow(1, 1, 2, 1, <<"a">>, 1, 10, 20),
     StoredRow(2, 1, 2, 2, <<"a">>, 1, 8, 0),
     StoredRow(3, 1, 3, 1, <<"b">>, 3, 20, 20),
     StoredRow(4, 2, 1, 2, <<"a">>, 1, 10, 20),
     StoredRow(5, 2, 2, 2, <<"b">>, 1, 8, 20),
     StoredRow(6, NULL, 2, 1, <<"a">>, 1, 10, 20),
     StoredRow(7, 1, 2, 1, <<"a">>, 1, NULL, 20),
     StoredRow(8, 1, 3, 2, <<"b">>, 1, 10, NULL),
     StoredRow(9, 2, 3, 1, <<"a">>, NULL, 10, 20),
     StoredRow(10, 1, 2, 2, <<"a">>, 1, TextValue, 20),
     StoredRow(11, 2, 1, 1, <<"b">>, 1, 8, TextValue)}

\* what get_user_workouts may hand a page: at most MaxRows rows, newest
\* first, rows of one instant in any order
FetchedLists ==
    UNION {ByDateDesc(S) : S \in {T \in SUBSET StoredRows : Cardinality(T) <= MaxRows}}

\* app.py:24-36 load_config: the configuration read from
\* workout_tracker/config.yaml, a file the program never writes: the cookie
\* settings and one account
LoadedConfig ==
    [cookie |-> [expiry_days |-> <<"1">>, key |-> <<"k">>, name |-> <<"c">>],
     usernames |-> [u \in {<<"a">>} |->
                      [email |-> <<"a", "@", "b">>, name |-> <<"A">>,
                       password |-> <<"s", "s", "s", "s", "s", "s">>]]]

\* the characters a file system may take of the text written to config.yaml:
\* none, a part, or all of it
AcceptedInputs == {0, 100, 150, 1000}

\* what a visitor may type into the registration form
EmailInputs == {<<>>, <<"b", "@", "a">>}
UsernameInputs == {<<>>, <<"a">>, <<"A">>, <<"b", "_", "a">>}
PasswordInputs ==
    {<<>>, <<"a", "b", "a", "b", "a">>, <<"a", "b", "a", "b", "a", "b">>,
     <<"a", "b", "a", "b", "a", "b", " ">>}
ConfirmInputs == {<<"a", "b", "a", "b", "a">>, <<"a", "b", "a", "b", "a", "b">>}

-----------------------------------------------------------------------------
(* The state machine                                                       *)
NewRun == [pc |-> "start", routines |-> <<>>, selected |-> <<>>, exercises |-> <<>>]

Init ==
    /\ config = LoadedConfig
    /\ config_yaml = NoFile
    /\ supabase \in {"client", "None"}
    /\ routines = {}
    /\ routine_exercises = {}
    /\ workouts = {}
    /\ serial = [routines |-> 0, routine_exercises |-> 0, workouts |-> 0]
    /\ now = 1
    /\ sess = [s \in Sessions |-> NewRun]
    /\ input = <<>>
    /\ last = [op |-> "init", calls |-> <<>>]

Commit(st) ==
    /\ routines' = st.routines
    /\ routine_exercises' = st.routine_exercises
    /\ workouts' = st.workouts
    /\ serial' = st.serial

\* datetime.now() moves on
Tick ==
    /\ now < Len(Clock)
    /\ now' = now + 1
    /\ last' = [op |-> "tick", calls |-> <<>>]
    /\ UNCHANGED <<config, config_yaml, supabase, routines, routine_exercises, workouts, serial, sess, input>>

\* a handler of the session's script run is between two of its requests
InFlight(s) ==
    sess[s].pc \in {"insert", "adding", "logging", "inserting", "add_workout", "store", "open", "dump"}

\* app.py:118: the label of a fetched routine in the selectbox,
\* f"{routine_name} ({day_name})", as its two parts
Label(r) == <<r.routine_name, r.day_name>>

\* app.py:128: routine_options.index(selected_option) - 1, the position of the
\* first fetched routine that carries the label of the option chosen
RoutineIdx(fetched, choice) ==
    CHOOSE i \in 1..Len(fetched) :
        /\ Label(fetched[i]) = Label(fetched[choice])
        /\ \A j \in 1..(i - 1) : Label(fetched[j]) # Label(fetched[choice])

\* app.py:110-134: a script run of the Add Workout page fetches the user's
\* routines; choice 0 is "Create New Routine", choice k the option of the
\* k-th fetched routine
AddWorkoutPage(s, choice, fault) ==
    /\ ~InFlight(s)
    /\ \E data \in SelectUserRoutines(Storage, Username[s]) :
         LET r == get_user_routines(Storage, Username[s], data, fault)
         IN  /\ choice \in 0..Len(r.ret)
             /\ sess' = [sess EXCEPT ![s] =
                           [pc |-> IF choice = 0 THEN "create" ELSE "selected",
                            routines |-> r.ret,
                            selected |-> IF choice = 0 THEN <<>>
                                         ELSE <<r.ret[RoutineIdx(r.ret, choice)]>>,
                            exercises |-> <<>>]]
             /\ last' = [op |-> "add_workout_page", session |-> s, choice |-> choice,
                         calls |-> <<Call("get_user_routines", Raises(fault), r)>>]
             /\ Commit(r.st)
             /\ UNCHANGED <<config, config_yaml, supabase, now, input>>

\* app.py:136-166: the create_routine_form is submitted
CreateRoutineSubmit(s, routine_name, day_name, fault) ==
    LET h == create_routine_form(Storage, sess[s].routines, Username[s],
                                 routine_name, day_name, "", fault)
    IN  /\ sess[s].pc = "create"
        /\ routine_name # <<>>
        /\ h.st.serial.routines <= MaxRoutines
        /\ sess' = [sess EXCEPT ![s] = NewRun]
        /\ last' = [op |-> "create_routine_form", session |-> s, day_name |-> day_name,
                    routine_name |-> routine_name, message |-> h.message, calls |-> h.calls]
        /\ Commit(h.st)
        /\ UNCHANGED <<config, config_yaml, supabase, now, input>>

\* app.py:169-174: the section of the selected routine fetches its exercises
SelectedRoutineSection(s, fault) ==
    /\ sess[s].pc = "selected"
    /\ \E data \in SelectRoutineExercises(Storage, sess[s].selected[1].id) :
         LET r == get_routine_exercises(Storage, sess[s].selected[1].id, data, fault)
         IN  /\ sess' = [sess EXCEPT ![s].pc = "routine", ![s].exercises = r.ret]
             /\ last' = [op |-> "selected_routine_section", session |-> s,
                         calls |-> <<Call("get_routine_exercises", Raises(fault), r)>>]
             /\ Commit(r.st)
             /\ UNCHANGED <<config, config_yaml, supabase, now, input>>

\* app.py:177-205: the add_exercise_form is submitted and add_routine_exercise
\* sends its select; the call returns at once, or waits to send its insert
AddExerciseSubmit(s, ex, num_sets, fault) ==
    /\ sess[s].pc = "routine"
    /\ ex.name # <<>>
    /\ LET r == add_routine_exercise_select(Storage, sess[s].selected[1].id, ex.name,
                                            ex.muscle, num_sets, 1, fault)
           h == add_exercise_form(r)
       IN  /\ sess' = [sess EXCEPT ![s] =
                         IF r.done THEN NewRun
                         ELSE [pc |-> "adding", routines |-> sess[s].routines,
                               selected |-> sess[s].selected,
                               exercises |-> sess[s].exercises, data |-> r.data]]
           /\ last' = [op |-> "add_exercise_form", session |-> s,
                       routine_id |-> sess[s].selected[1].id, exercise_name |-> ex.name,
                       done |-> r.done, message |-> IF r.done THEN h.message ELSE "",
                       calls |-> IF r.done
                                 THEN <<Call("add_routine_exercise", Raises(fault), r)>>
                                 ELSE <<>>]
           /\ Commit(r.st)
           /\ UNCHANGED <<config, config_yaml, supabase, now, input>>

\* app.py:193-205: add_routine_exercise sends its insert and returns to the
\* add_exercise_form handler
AddExerciseInsert(s, fault) ==
    /\ sess[s].pc = "adding"
    /\ LET r == add_routine_exercise_insert(Storage, sess[s].data, fault)
           h == add_exercise_form(r)
       IN  /\ r.st.serial.routine_exercises <= MaxExercises
           /\ sess' = [sess EXCEPT ![s] = NewRun]
           /\ last' = [op |-> "add_exercise_form", session |-> s,
                       routine_id |-> sess[s].data.routine_id,
                       exercise_name |-> sess[s].data.exercise_name,
                       done |-> TRUE, message |-> h.message,
                       calls |-> <<Call("add_routine_exercise", Raises(fault), r)>>]
           /\ Commit(r.st)
           /\ UNCHANGED <<config, config_yaml, supabase, now, input>>

\* app.py:209-289: the sets of every fetched exercise are entered and
\* "Log This Workout" is pressed.  counts and added are kept for the record:
\* the number of sets entered per exercise, and the ids of the rows the
\* run's inserts have added
LogThisWorkout(s, set_details) ==
    /\ sess[s].pc = "routine"
    /\ sess[s].exercises # <<>>
    /\ set_details \in [1..Len(sess[s].exercises) -> SetLists]
    /\ LET entries == AllSetDetails(sess[s].selected[1], sess[s].exercises, set_details,
                                    [i \in 1..Len(sess[s].exercises) |-> ""])
           counts == [i \in 1..Len(set_details) |-> Len(set_details[i])]
       IN  /\ serial.workouts + Sum(counts) <= MaxLogged
           /\ sess' = [sess EXCEPT ![s] =
                         [pc |-> "logging", routines |-> sess[s].routines,
                          selected |-> sess[s].selected, exercises |-> sess[s].exercises,
                          run |-> log_this_workout(entries), counts |-> counts,
                          added |-> {}]]
           /\ last' = [op |-> "log_this_workout_pressed", session |-> s, calls |-> <<>>]
           /\ UNCHANGED <<config, config_yaml, supabase, routines, routine_exercises, workouts, serial,
                          now, input>>

\* app.py:288-300, database.py:193-205: the next pass of the loops calls
\* add_workout, which builds its row and reads the clock
LogNextSet(s) ==
    /\ sess[s].pc = "logging"
    /\ LET pass == Head(sess[s].run.todo)
       IN  sess' = [sess EXCEPT ![s] =
                      [pc |-> "inserting", routines |-> sess[s].routines,
                       selected |-> sess[s].selected, exercises |-> sess[s].exercises,
                       run |-> sess[s].run, counts |-> sess[s].counts,
                       added |-> sess[s].added,
                       data |-> LogOneSet(Clock[now], Username[s], pass.details,
                                          pass.set_data)]]
    /\ last' = [op |-> "add_workout_data", session |-> s, calls |-> <<>>]
    /\ UNCHANGED <<config, config_yaml, supabase, routines, routine_exercises, workouts, serial,
                   now, input>>

\* database.py:206-210, app.py:301-306: the insert of the pass is served and
\* add_workout returns; after the last pass the handler shows its message and
\* the script reruns
LogInsertSet(s, fault) ==
    /\ sess[s].pc = "inserting"
    /\ LET h == LogLoop(Storage, sess[s].run, sess[s].data, fault)
           added == sess[s].added \cup {w.id : w \in h.st.workouts \ workouts}
       IN  /\ sess' = [sess EXCEPT ![s] =
                         IF h.run.todo = <<>> THEN NewRun
                         ELSE [pc |-> "logging", routines |-> sess[s].routines,
                               selected |-> sess[s].selected,
                               exercises |-> sess[s].exercises,
                               run |-> h.run, counts |-> sess[s].counts,
                               added |-> added]]
           /\ last' = [op |-> IF h.run.todo = <<>> THEN "log_this_workout" ELSE "log_next_set",
                       session |-> s, pass |-> Head(sess[s].run.todo),
                       data |-> sess[s].data,
                       counts |-> sess[s].counts, added |-> added,
                       total_sets_logged |-> h.run.total_sets_logged,
                       exercises |-> h.run.exercises, log |-> h.run.calls,
                       message |-> IF h.run.todo = <<>> THEN Logged(h.run) ELSE <<>>,
                       calls |-> <<h.run.calls[Len(h.run.calls)]>>]
           /\ Commit(h.st)
           /\ UNCHANGED <<config, config_yaml, supabase, now, input>>

\* app.py:313-320: a script run of the View History page fetches the user's
\* workouts
ViewHistoryPage(s, fault) ==
    /\ ~InFlight(s)
    /\ \E data \in SelectUserWorkouts(Storage, Username[s], PageLimit) :
         LET r == get_user_workouts(Storage, Username[s], PageLimit, data, fault)
         IN  /\ sess' = [sess EXCEPT ![s] =
                           IF r.ret = <<>> THEN NewRun
                           ELSE [pc |-> "history", routines |-> <<>>, selected |-> <<>>,
                                 exercises |-> <<>>, all_workouts |-> r.ret]]
             /\ last' = [op |-> "view_history_page", session |-> s,
                         message |-> IF r.ret = <<>> THEN "No workouts logged yet!" ELSE "",
                         calls |-> <<Call("get_user_workouts", Raises(fault), r)>>]
             /\ Commit(r.st)
             /\ UNCHANGED <<config, config_yaml, supabase, now, input>>

\* app.py:322-324: the page fetches the routines for the headers of its groups
HistoryRoutines(s, fault) ==
    /\ sess[s].pc = "history"
    /\ \E data \in SelectUserRoutines(Storage, Username[s]) :
         LET r == get_user_routines(Storage, Username[s], data, fault)
         IN  /\ sess' = [sess EXCEPT ![s].pc = "grouped", ![s].routines = r.ret]
             /\ last' = [op |-> "history_routines", session |-> s,
                         calls |-> <<Call("get_user_routines", Raises(fault), r)>>]
             /\ Commit(r.st)
             /\ UNCHANGED <<config, config_yaml, supabase, now, input>>

\* app.py:369-378: the delete button of a set shown in the grouped view was
\* pressed
DeleteSetPressed(s, id, fault) ==
    /\ sess[s].pc = "grouped"
    /\ id \in {w.id : w \in RowsInHistory(view_history(sess[s].all_workouts).grouped)}
    /\ LET r == delete_workout(Storage, id, fault)
       IN  /\ sess' = [sess EXCEPT ![s] = NewRun]
           /\ last' = [op |-> "delete_set", session |-> s, id |-> id,
                       message |-> IF r.ret THEN "Set deleted!" ELSE "Failed to delete set",
                       calls |-> <<Call("delete_workout", Raises(fault), r)>>]
           /\ Commit(r.st)
           /\ UNCHANGED <<config, config_yaml, supabase, now, input>>

-----
(* The methods of WorkoutDatabase called directly, as a caller of the      *)
(* class may call them.                                                    *)
Invoke(op, args, call, st) ==
    /\ last' = [op |-> op, args |-> args, calls |-> <<call>>]
    /\ Commit(st)
    /\ UNCHANGED <<config, config_yaml, supabase, now, sess, input>>

CallCreateRoutine(user_id, routine_name, day_name, fault) ==
    LET r == create_routine(Storage, user_id, routine_name, day_name, "", fault)
    IN  /\ r.st.serial.routines <= MaxRoutines
        /\ Invoke("create_routine", <<user_id, routine_name, day_name>>,
                  Call("create_routine", Raises(fault), r), r.st)

CallGetUserRoutines(user_id, fault) ==
    \E data \in SelectUserRoutines(Storage, user_id) :
      LET r == get_user_routines(Storage, user_id, data, fault)
      IN  Invoke("get_user_routines", <<user_id>>,
                 Call("get_user_routines", Raises(fault), r), r.st)

CallGetRoutineExercises(routine_id, fault) ==
    \E data \in SelectRoutineExercises(Storage, routine_id) :
      LET r == get_routine_exercises(Storage, routine_id, data, fault)
      IN  Invoke("get_routine_exercises", <<routine_id>>,
                 Call("get_routine_exercises", Raises(fault), r), r.st)

CallDeleteRoutine(routine_id, fault) ==
    LET r == delete_routine(Storage, routine_id, fault)
    IN  Invoke("delete_routine", <<routine_id>>, Call("delete_routine", Raises(fault), r), r.st)

\* database.py:178-205: a caller's add_workout call builds its row and reads
\* the clock
AddWorkoutData(s, user_id, ex, set_data, routine_id, routine_exercise_id) ==
    /\ sess[s].pc = "start"
    /\ sess' = [sess EXCEPT ![s] =
                  [pc |-> "add_workout", routines |-> <<>>, selected |-> <<>>,
                   exercises |-> <<>>,
                   data |-> add_workout_data(Clock[now], user_id, ex.name, ex.muscle, 1,
                                             set_data.reps, set_data.weight, "",
                                             set_data.effort, routine_id,
                                             routine_exercise_id)]]
    /\ last' = [op |-> "add_workout_data", session |-> s, calls |-> <<>>]
    /\ UNCHANGED <<config, config_yaml, supabase, routines, routine_exercises, workouts, serial,
                   now, input>>

\* database.py:206-210: the call's insert is served and the call returns
AddWorkoutInsert(s, room, fault) ==
    /\ sess[s].pc = "add_workout"
    /\ LET data == sess[s].data
           r == add_workout_insert(Storage, data, fault)
       IN  /\ r.st.serial.workouts <= room
           /\ sess' = [sess EXCEPT ![s] = NewRun]
           /\ last' = [op |-> "add_workout", session |-> s, data |-> data,
                       args |-> <<data.user_id, data.exercise_name, data.routine_id,
                                  data.routine_exercise_id>>,
                       calls |-> <<Call("add_workout", Raises(fault), r)>>]
           /\ Commit(r.st)
           /\ UNCHANGED <<config, config_yaml, supabase, now, input>>

CallGetWorkoutsByMuscle(user_id, muscle, fault) ==
    \E data \in SelectWorkoutsByMuscle(Storage, user_id, muscle) :
      LET r == get_workouts_by_muscle(Storage, user_id, muscle, data, fault)
      IN  Invoke("get_workouts_by_muscle", <<user_id, muscle>>,
                 Call("get_workouts_by_muscle", Raises(fault), r), r.st)

CallGetWorkoutsByExercise(user_id, exercise, fault) ==
    \E data \in SelectWorkoutsByExercise(Storage, user_id, exercise) :
      LET r == get_workouts_by_exercise(Storage, user_id, exercise, data, fault)
      IN  Invoke("get_workouts_by_exercise", <<user_id, exercise>>,
                 Call("get_workouts_by_exercise", Raises(fault), r), r.st)

CallUpdateWorkout(workout_id, updates, fault) ==
    LET r == update_workout(Storage, workout_id, updates, fault)
    IN  Invoke("update_workout", <<workout_id, updates>>,
               Call("update_workout", Raises(fault), r), r.st)

CallDeleteWorkout(workout_id, fault) ==
    LET r == delete_workout(Storage, workout_id, fault)
    IN  Invoke("delete_workout", <<workout_id>>, Call("delete_workout", Raises(fault), r), r.st)

CallGetUserWorkouts(user_id, limit, fault) ==
    \E data \in SelectUserWorkouts(Storage, user_id, limit) :
      LET r == get_user_workouts(Storage, user_id, limit, data, fault)
      IN  Invoke("get_user_workouts", <<user_id, limit>>,
                 Call("get_user_workouts", Raises(fault), r), r.st)

\* database.py:76-87: a session's add_routine_exercise call sends its select;
\* the call returns at once, or waits to send its insert
AddRoutineExerciseSelect(s, routine_id, ex, sets, fault) ==
    LET r == add_routine_exercise_select(Storage, routine_id, ex.name, ex.muscle,
                                         sets, 1, fault)
    IN  /\ sess[s].pc = "start"
        /\ sess' = [sess EXCEPT ![s] =
                      IF r.done THEN NewRun
                      ELSE [pc |-> "insert", routines |-> <<>>, selected |-> <<>>,
                            exercises |-> <<>>, data |-> r.data]]
        /\ last' = [op |-> "add_routine_exercise_select", session |-> s,
                    args |-> <<routine_id, ex.name>>, done |-> r.done,
                    calls |-> IF r.done
                              THEN <<Call("add_routine_exercise", Raises(fault), r)>>
                              ELSE <<>>]
        /\ Commit(r.st)
        /\ UNCHANGED <<config, config_yaml, supabase, now, input>>

\* database.py:89-102: the call sends its insert and returns
AddRoutineExerciseInsert(s, fault) ==
    /\ sess[s].pc = "insert"
    /\ LET r == add_routine_exercise_insert(Storage, sess[s].data, fault)
       IN  /\ r.st.serial.routine_exercises <= MaxExercises
           /\ sess' = [sess EXCEPT ![s] = NewRun]
           /\ last' = [op |-> "add_routine_exercise_insert", session |-> s,
                       args |-> <<sess[s].data.routine_id, sess[s].data.exercise_name>>,
                       done |-> TRUE,
                       calls |-> <<Call("add_routine_exercise", Raises(fault), r)>>]
           /\ Commit(r.st)
           /\ UNCHANGED <<config, config_yaml, supabase, now, input>>

-----------------------------------------------------------------------------
(* The pure functions, applied to an input drawn at the start              *)
Constructed ==
    /\ config = LoadedConfig
    /\ config_yaml = NoFile
    /\ supabase = "client"
    /\ routines = {}
    /\ routine_exercises = {}
    /\ workouts = {}
    /\ serial = [routines |-> 0, routine_exercises |-> 0, workouts |-> 0]
    /\ now = 1
    /\ sess = [s \in Sessions |-> NewRun]
    /\ last = [op |-> "init", calls |-> <<>>]

InitNorm == Constructed /\ input \in Texts(MaxLen) \cup {None}

\* database.py:9-10: _norm_name is applied to the input, and its result is
\* the next input; nth counts the applications to the text drawn at the start
NormName ==
    /\ IF last.op = "init" THEN TRUE ELSE last.nth < 2
    /\ last' = [op |-> "_norm_name", calls |-> <<>>, s |-> input, ret |-> _norm_name(input),
                 first |-> IF last.op = "init" THEN input ELSE last.first,
                 nth |-> IF last.op = "init" THEN 1 ELSE last.nth + 1]
    /\ input' = _norm_name(input)
    /\ UNCHANGED <<config, config_yaml, supabase, routines, routine_exercises, workouts, serial, now, sess>>

InitAgg == Constructed /\ input \in FetchedLists

\* app.py:321-346: the View History page groups the fetched workouts
ViewHistory ==
    /\ last' = [op |-> "view_history", calls |-> <<>>, all_workouts |-> input,
                 page |-> view_history(input)]
    /\ UNCHANGED <<config, config_yaml, supabase, routines, routine_exercises, workouts, serial, now, sess, input>>

\* app.py:391-406: the Statistics page totals the fetched workouts
ViewStatistics ==
    /\ last' = [op |-> "statistics", calls |-> <<>>, all_workouts |-> input,
                 page |-> statistics(input)]
    /\ UNCHANGED <<config, config_yaml, supabase, routines, routine_exercises, workouts, serial, now, sess, input>>

\* app.py:445-453: a visitor submits the registration form and the handler
\* validates the submission; the username is looked up in the mapping all
\* sessions share.  A rejected submission ends the script run with its error
SignUpSubmit(s, new_email, new_username, new_password, new_password_confirm) ==
    LET h == sign_up(config.usernames, new_email, new_username, new_password,
                     new_password_confirm)
        submitted == [session |-> s, calls |-> <<>>, new_email |-> new_email,
                      new_username |-> new_username, new_password |-> new_password,
                      new_password_confirm |-> new_password_confirm]
    IN  /\ sess[s].pc = "start"
        /\ Cardinality(DOMAIN config.usernames \cup {new_username}) <= MaxAccounts
        /\ sess' = [sess EXCEPT ![s] =
                      IF h.rejected THEN NewRun
                      ELSE [pc |-> "store", routines |-> <<>>, selected |-> <<>>,
                            exercises |-> <<>>, submitted |-> submitted,
                            entry |-> h.entry]]
        /\ last' = IF h.rejected
                   THEN [op |-> "sign_up", message |-> h.message, error |-> ""] @@ submitted
                   ELSE [op |-> "sign_up_validated"] @@ submitted
        /\ UNCHANGED <<config, config_yaml, supabase, routines, routine_exercises,
                       workouts, serial, now, input>>

\* app.py:455-459: the handler stores the entry under the username
SignUpStore(s) ==
    /\ sess[s].pc = "store"
    /\ config' = [config EXCEPT !.usernames =
                     StoreEntry(@, sess[s].submitted.new_username, sess[s].entry)]
    /\ sess' = [sess EXCEPT ![s].pc = "open"]
    /\ last' = [op |-> "sign_up_store"] @@ sess[s].submitted
    /\ UNCHANGED <<config_yaml, supabase, routines, routine_exercises, workouts, serial,
                   now, input>>

\* app.py:461, 41: save_config opens config.yaml for writing; when that
\* fails the error is reported and the handler goes on to its message
\* (app.py:463-474)
SaveConfigOpen(s, fault) ==
    /\ sess[s].pc = "open"
    /\ LET r == save_config_open(config_yaml, fault)
       IN  /\ config_yaml' = r.file
           /\ sess' = [sess EXCEPT ![s] = IF fault THEN NewRun ELSE [@ EXCEPT !.pc = "dump"]]
           /\ last' = IF fault
                      THEN [op |-> "sign_up", message |-> AccountCreated,
                            error |-> r.error] @@ sess[s].submitted
                      ELSE [op |-> "save_config_open"] @@ sess[s].submitted
    /\ UNCHANGED <<config, supabase, routines, routine_exercises, workouts, serial, now,
                   input>>

\* app.py:42-44, 463-474: yaml.dump writes the configuration, save_config
\* returns, and the handler shows its message and reruns the script
SaveConfigDump(s, accepted) ==
    /\ sess[s].pc = "dump"
    /\ LET r == save_config_dump(config_yaml, config, accepted)
       IN  /\ config_yaml' = r.file
           /\ last' = [op |-> "sign_up", message |-> AccountCreated,
                       error |-> r.error] @@ sess[s].submitted
    /\ sess' = [sess EXCEPT ![s] = NewRun]
    /\ UNCHANGED <<config, supabase, routines, routine_exercises, workouts, serial, now,
                   input>>

\* the server is started again: the cache of load_config is empty, so the
\* script loads workout_tracker/config.yaml anew (app.py:24-36, 46), and the
\* sessions start over; config.yaml stays as it was written
Restart ==
    /\ config' = LoadedConfig
    /\ sess' = [s \in Sessions |-> NewRun]
    /\ last' = [op |-> "restart", calls |-> <<>>]
    /\ UNCHANGED <<config_yaml, supabase, routines, routine_exercises, workouts, serial,
                   now, input>>

-----------------------------------------------------------------------------
(* Specifications.  Each takes the program from its state after            *)
(* construction through one family of operations.                          *)

\* two sessions of one user on the Add Workout page, creating routines
NextRoutines ==
    \/ \E s \in Sessions, choice \in 0..MaxRoutines, fault \in BOOLEAN :
         AddWorkoutPage(s, choice, fault)
    \/ \E s \in Sessions, n \in RoutineNameInputs, d \in Days, fault \in BOOLEAN :
         CreateRoutineSubmit(s, n, d, fault)

SpecRoutines == Init /\ [][NextRoutines]_vars

\* a session that sets up a routine and its exercises and logs workouts, set
\* by set, while the clock moves on and other callers add a workout and
\* delete one
NextLog ==
    \/ Tick
    \/ \E choice \in 0..MaxRoutines : AddWorkoutPage("s1", choice, FALSE)
    \/ CreateRoutineSubmit("s1", <<"A", " ", " ", "b">>, "Monday", FALSE)
    \/ SelectedRoutineSection("s1", FALSE)
    \/ \E ex \in ExerciseInputs : AddExerciseSubmit("s1", ex, DefaultSets, FALSE)
    \/ AddExerciseInsert("s1", FALSE)
    \/ \E set_details \in UNION {[1..n -> SetLists] : n \in 1..MaxExercises} :
         LogThisWorkout("s1", set_details)
    \/ LogNextSet("s1")
    \/ \E fault \in BOOLEAN : LogInsertSet("s1", fault)
    \/ AddWorkoutData("s2", "alice", [name |-> <<"b">>, muscle |-> "Legs"],
                      [reps |-> 10, weight |-> 20, effort |-> "Medium"], NULL, NULL)
    \/ AddWorkoutInsert("s2", MaxWorkouts, FALSE)
    \/ CallDeleteWorkout(1, FALSE)

SpecLog == Init /\ [][NextLog]_vars

\* callers of WorkoutDatabase that call its methods in any order; the other
\* callers' requests are served between the two requests of an
\* add_routine_exercise call
NextApi ==
    \/ \E fault \in BOOLEAN :
         CallCreateRoutine("alice", <<"A", " ", " ", "b">>, "Monday", fault)
    \/ \E u \in Users, fault \in BOOLEAN : CallGetUserRoutines(u, fault)
    \/ \E rid \in 1..MaxRoutines, ex \in ExerciseInputs, fault \in BOOLEAN :
         AddRoutineExerciseSelect("s1", rid, ex, DefaultSets, fault)
    \/ \E fault \in BOOLEAN : AddRoutineExerciseInsert("s1", fault)
    \/ \E rid \in 1..MaxRoutines, fault \in BOOLEAN : CallGetRoutineExercises(rid, fault)
    \/ \E rid \in 1..MaxRoutines, fault \in BOOLEAN : CallDeleteRoutine(rid, fault)
    \/ \E rid \in {NULL, 1}, reid \in {NULL, 1} :
         AddWorkoutData("s1", "alice", [name |-> <<"A">>, muscle |-> "Chest"],
                        [reps |-> 10, weight |-> 20, effort |-> "Medium"], rid, reid)
    \/ \E fault \in BOOLEAN : AddWorkoutInsert("s1", MaxWorkouts, fault)
    \/ \E m \in {"Chest", "Legs"}, fault \in BOOLEAN : CallGetWorkoutsByMuscle("alice", m, fault)
    \/ \E fault \in BOOLEAN : CallGetWorkoutsByExercise("alice", <<" ", "A">>, fault)
    \/ \E id \in 1..MaxWorkouts, upd \in UpdateInputs, fault \in BOOLEAN :
         CallUpdateWorkout(id, upd, fault)
    \/ \E id \in 1..MaxWorkouts, fault \in BOOLEAN : CallDeleteWorkout(id, fault)
    \/ \E limit \in {1, PageLimit}, fault \in BOOLEAN : CallGetUserWorkouts("alice", limit, fault)

SpecApi == Init /\ [][NextApi]_vars

\* a session on the View History page, deleting sets, while workouts are
\* logged and deleted by other callers
NextHistory ==
    \/ Tick
    \/ CallCreateRoutine("alice", <<"A", " ", " ", "b">>, "Monday", FALSE)
    \/ \E rid \in {NULL, 1} :
         AddWorkoutData("s2", "alice", [name |-> <<"A">>, muscle |-> "Chest"],
                        [reps |-> 10, weight |-> 20, effort |-> "Medium"], rid, NULL)
    \/ AddWorkoutInsert("s2", MaxShown, FALSE)
    \/ CallDeleteWorkout(1, FALSE)
    \/ \E fault \in BOOLEAN : ViewHistoryPage("s1", fault)
    \/ HistoryRoutines("s1", FALSE)
    \/ \E id \in 1..MaxShown, fault \in BOOLEAN : DeleteSetPressed("s1", id, fault)

SpecHistory == Init /\ [][NextHistory]_vars

\* the normalizer applied to a text, and again to its result
NextNorm == NormName

SpecNorm == InitNorm /\ [][NextNorm]_vars

\* the two aggregating pages on a fetched list of workouts
NextAgg ==
    \/ ViewHistory
    \/ ViewStatistics

SpecAgg == InitAgg /\ [][NextAgg]_vars

\* two visitors submitting the registration form, step by step, and the server
\* started again
NextSignUp ==
    \/ \E s \in Sessions, e \in EmailInputs, u \in UsernameInputs, p \in PasswordInputs,
          c \in ConfirmInputs :
            SignUpSubmit(s, e, u, p, c)
    \/ \E s \in Sessions : SignUpStore(s)
    \/ \E s \in Sessions, fault \in BOOLEAN : SaveConfigOpen(s, fault)
    \/ \E s \in Sessions, accepted \in AcceptedInputs : SaveConfigDump(s, accepted)
    \/ Restart

SpecSignUp == Init /\ [][NextSignUp]_vars

\* two sessions whose add_routine_exercise calls interleave request by
\* request, while routines are created and deleted
NextExercises ==
    \/ CallCreateRoutine("alice", <<"A", " ", " ", "b">>, "Monday", FALSE)
    \/ CallDeleteRoutine(1, FALSE)
    \/ \E s \in Sessions, rid \in 1..MaxRoutines, ex \in ExerciseInputs,
          sets \in {DefaultSets, NULL}, fault \in BOOLEAN :
         AddRoutineExerciseSelect(s, rid, ex, sets, fault)
    \/ \E s \in Sessions, fault \in BOOLEAN : AddRoutineExerciseInsert(s, fault)

SpecExercises == Init /\ [][NextExercises]_vars

-----------------------------------------------------------------------------
(* Claims                                                                  *)

\* the day the form submits is the day of a routine in the session's fetched list
DayInFetched(s, day_name) ==
    \E i \in 1..Len(sess[s].routines) : sess[s].routines[i].day_name = day_name

\* C1: when the create-routine form is submitted for a weekday that a routine
\* of the session's fetched list already has, the day-already-scheduled error
\* is shown and the routines table is left as it was.
C1_DayTakenRejected ==
    [][\A s \in Sessions :
         (last'.op = "create_routine_form" /\ last'.session = s
            /\ DayInFetched(s, last'.day_name))
         => (last'.message = DayAlreadyScheduled /\ last'.calls = <<>>
               /\ routines' = routines)]_vars

\* C1 witness: a submission was rejected for its day while routines are stored
C1_Witness ==
    /\ last.op = "create_routine_form"
    /\ last.message = DayAlreadyScheduled
    /\ \E r \in routines : r.day_name = last.day_name

\* the rows the routine holds under the key of the name
HeldUnder(rows, routine_id, exercise_name) ==
    {e \in rows : e.routine_id = routine_id /\ e.exercise_name = _norm_name(exercise_name)}

\* the step added exactly one row, for that routine and key, with the id ret
InsertedOne(routine_id, exercise_name, ret, before, after) ==
    /\ before \subseteq after
    /\ Cardinality(after \ before) = 1
    /\ \A e \in after \ before :
         e.id = ret /\ e.routine_id = routine_id
         /\ e.exercise_name = _norm_name(exercise_name)

\* the lookup of an add_routine_exercise call found the exercise and the call
\* returned a holder's id, or found none and the call went on; nothing was
\* inserted
LookedUp(routine_id, exercise_name, step, before, after) ==
    /\ after = before
    /\ IF HeldUnder(before, routine_id, exercise_name) # {}
       THEN /\ step.done
            /\ step.calls[1].ret \in {e.id : e \in HeldUnder(before, routine_id, exercise_name)}
       ELSE ~step.done

\* the storage refuses the row: a value is null, the routine is not stored, or
\* the routine holds a name equal to the key up to letter case
Refused(data) ==
    \/ ~RoutineExerciseNotNull(data)
    \/ ~\E r \in routines : r.id = data.routine_id
    \/ \E e \in routine_exercises :
         e.routine_id = data.routine_id /\ lower(e.exercise_name) = lower(data.exercise_name)

\* C2 as stated: every add_routine_exercise call on a stored routine is an
\* idempotent add: with the exercise held it returns the existing id and
\* inserts nothing, otherwise it inserts exactly one row and returns the new id.
C2_AsStated ==
    [][/\ (last'.op = "add_routine_exercise_select"
             /\ \E r \in routines : r.id = last'.args[1])
          => LookedUp(last'.args[1], last'.args[2], last', routine_exercises,
                      routine_exercises')
       /\ (last'.op = "add_routine_exercise_insert"
             /\ \E r \in routines : r.id = last'.args[1])
          => InsertedOne(last'.args[1], last'.args[2], last'.calls[1].ret,
                         routine_exercises, routine_exercises')]_vars

\* C2 amended: an add_routine_exercise call on a stored routine looks the key
\* up and, when the routine holds an exercise under it, returns that exercise's
\* id and inserts nothing; otherwise it sends an insert, which adds exactly one
\* row and returns the new id unless the storage fails or refuses the row (the
\* routine was deleted, or another caller added the name, since the lookup).
\* A call during which the storage fails or refuses the row returns null and
\* inserts nothing.
C2_IdempotentAdd ==
    [][/\ (last'.op = "add_routine_exercise_select"
             /\ \E r \in routines : r.id = last'.args[1])
          => IF last'.done /\ last'.calls[1].fault
             THEN last'.calls[1].ret = NULL /\ routine_exercises' = routine_exercises
             ELSE LookedUp(last'.args[1], last'.args[2], last', routine_exercises,
                           routine_exercises')
       /\ last'.op = "add_routine_exercise_insert"
          => IF last'.calls[1].fault \/ Refused(sess[last'.session].data)
             THEN last'.calls[1].ret = NULL /\ routine_exercises' = routine_exercises
             ELSE InsertedOne(last'.args[1], last'.args[2], last'.calls[1].ret,
                              routine_exercises, routine_exercises')]_vars

\* C2 witness: the table is full, and a call with a name that differs from the
\* stored key in case and whitespace came back with the id of the older row
C2_Witness ==
    /\ last.op = "add_routine_exercise_select"
    /\ last.done /\ ~last.calls[1].fault
    /\ last.args[2] = <<" ", "a">>
    /\ last.calls[1].ret # NULL
    /\ last.calls[1].ret < serial.routine_exercises
    /\ \E e \in routine_exercises :
         e.id = last.calls[1].ret /\ e.routine_id = last.args[1] /\ e.exercise_name = <<"a">>

\* a pass of the log loops was made: one add_workout call
LogPass(op) == op \in {"log_next_set", "log_this_workout"}

\* C3: a log of M exercises with n_1..n_M sets during which no insert fails
\* adds one workout row with sets = 1 at each pass, n_1+...+n_M rows in all,
\* and reports that sum as the sets logged and M as the exercises.
C3_FanOutCount ==
    [][(LogPass(last'.op) /\ \A i \in 1..Len(last'.log) : ~last'.log[i].fault)
       => LET n == Sum(last'.counts)
              new == workouts' \ workouts
          IN  /\ workouts \subseteq workouts'
              /\ Cardinality(new) = 1
              /\ \A w \in new : w.sets = 1 /\ w.id \notin sess[last'.session].added
              /\ Cardinality(last'.added) = Len(last'.log)
              /\ last'.op = "log_this_workout"
                 => /\ Cardinality(last'.added) = n
                    /\ last'.total_sets_logged = n
                    /\ last'.exercises = Len(last'.counts)
                    /\ last'.exercises = Len(sess[last'.session].exercises)
                    /\ last'.message = <<"Logged", n, "sets from", Len(last'.counts),
                                         "exercises">>]_vars

\* C3 witness: two exercises, with two sets and with one, were logged as
\* three rows
C3_Witness ==
    /\ last.op = "log_this_workout"
    /\ last.counts = <<2, 1>>
    /\ last.total_sets_logged = 3
    /\ Cardinality(last.added) = 3
    /\ Cardinality(workouts) = 3

\* C4: a log makes one insert per entered set whatever fails: a pass whose
\* insert fails adds no row and is followed by the remaining passes, and the
\* count the log reports is the number of rows it added, which is the number of
\* inserts during which the storage did not fail.
C4_FailureIsolation ==
    [][LogPass(last'.op)
       => /\ workouts \subseteq workouts'
          /\ Cardinality(workouts' \ workouts) = IF last'.calls[1].fault THEN 0 ELSE 1
          /\ last'.op = "log_this_workout" <=> Len(last'.log) = Sum(last'.counts)
          /\ last'.total_sets_logged = Cardinality(last'.added)
          /\ last'.total_sets_logged
               = Cardinality({i \in 1..Len(last'.log) : ~last'.log[i].fault})]_vars

\* C4 witness: an insert failed, a later one of the same log succeeded
C4_Witness ==
    /\ last.op = "log_this_workout"
    /\ \E i, j \in 1..Len(last.log) :
         i < j /\ last.log[i].fault /\ ~last.log[i].ret /\ last.log[j].ret
    /\ last.total_sets_logged >= 1
    /\ workouts # {}

\* what a data-access method returns when the storage fails
Sentinel(fn) ==
    CASE fn \in {"create_routine", "add_routine_exercise"} -> NULL
      [] fn \in {"add_workout", "update_workout", "delete_workout", "delete_routine"} -> FALSE
      [] OTHER -> <<>>

\* C5: a data-access call during which the storage fails (the client was never
\* created, or the call raises) raises nothing to its caller, returns its
\* failure value (null id, false, empty list) and leaves the tables as they were.
C5_FailureSentinel ==
    [][\A i \in 1..Len(last'.calls) :
         last'.calls[i].fault
         => /\ ~last'.calls[i].raised
            /\ last'.calls[i].ret = Sentinel(last'.calls[i].fn)
            /\ Storage' = Storage]_vars

\* C5 witness: delete_routine failed on a database that holds rows
C5_Witness ==
    /\ last.op = "delete_routine"
    /\ last.calls[1].fault
    /\ last.calls[1].ret = FALSE
    /\ \E r \in routines : r.id = last.args[1]
    /\ routine_exercises # {}
    /\ workouts # {}

\* the fetched rows that have a reps value
WithReps(all_workouts) ==
    LET has_reps(w) == w.reps # NULL
    IN  SelectSeq(all_workouts, has_reps)

\* C6: a fetched workout row whose reps is null never appears in the grouped
\* history and adds nothing to any statistics total (row count, total sets,
\* total reps, total volume), and neither page fails because of it: each page
\* shows what it would show had the row not been fetched.
C6_NullRepsFiltered ==
    /\ last.op = "view_history"
       => \A w \in RowsInHistory(last.page.grouped) : w.reps # NULL
    /\ last.op = "statistics"
       => last.page = statistics(WithReps(last.all_workouts))

\* a missing or non-numeric value counted as zero
Zero(v) == IF v \in {NULL, TextValue} THEN 0 ELSE v

\* C7: for any fetched list of workout rows the Statistics page computes
\* total reps = the sum over rows of sets*reps and total volume = the sum over
\* rows of sets*reps*weight, a missing or non-numeric sets, reps or weight
\* counting as zero, and the computation does not fail.
C7_TotalsCoerced ==
    last.op = "statistics" /\ last.all_workouts # <<>>
    => LET rows == last.all_workouts
           reps == [i \in DOMAIN rows |-> Zero(rows[i].sets) * Zero(rows[i].reps)]
           volume == [i \in DOMAIN rows |-> reps[i] * Zero(rows[i].weight)]
       IN  /\ ~last.page.raised
           /\ last.page.total_reps = Sum(reps)
           /\ last.page.total_volume = Format(Sum(volume))

\* the Statistics page was given exactly the rows {sets 1, reps 10, weight 20}
\* and {sets 1, reps 8, weight 0}
TwoRowsTotalled ==
    /\ last.op = "statistics"
    /\ Len(last.all_workouts) = 2
    /\ {<<last.all_workouts[i].sets, last.all_workouts[i].reps, last.all_workouts[i].weight>> :
          i \in 1..2} = {<<1, 10, 20>>, <<1, 8, 0>>}

\* C8 as the specification states it: for those two rows total reps is 18 and
\* total volume is 160.
C8_AsStated ==
    TwoRowsTotalled
    => last.page.total_reps = 18 /\ last.page.total_volume = <<"1", "6", "0">>

\* C8: for the rows {sets 1, reps 10, weight 20} and {sets 1, reps 8, weight 0}
\* the Statistics page shows total reps 18 and total volume 200.
C8_TotalsOfTwoRows ==
    TwoRowsTotalled
    => /\ ~last.page.raised
       /\ last.page.total_reps = 18
       /\ last.page.total_volume = <<"2", "0", "0">>

C8_Witness == TwoRowsTotalled /\ last.page.shown = 4

\* the calendar day (index into CalendarDays) a timestamp falls on
CalendarDay(date) ==
    CHOOSE d \in DOMAIN CalendarDays : \E t \in DOMAIN TimesOfDay : Timestamp(d, t) = date

\* the date buckets, as <<routine entry, date entry>>, that show the row w
BucketsOf(grouped, w) ==
    {<<r, d>> \in UNION {{r} \X DOMAIN grouped[r].dates : r \in DOMAIN grouped} :
        w \in RowsInBucket(grouped[r].dates[d])}

\* two fetched rows of one routine on one calendar day
SameRoutineAndDay(a, b) ==
    /\ Truthy(a.routine_id) /\ a.routine_id = b.routine_id
    /\ CalendarDay(a.date) = CalendarDay(b.date)

\* C9: in the grouped history any two rows of the same routine whose timestamps
\* fall on the same calendar day are shown under one and the same date bucket,
\* labelled with the first 10 characters (YYYY-MM-DD) of the timestamp, whatever
\* their times of day, and the date buckets of each routine are listed in
\* descending order of that label.
C9_DateBuckets ==
    last.op = "view_history"
    => LET all == last.all_workouts
           g == last.page.grouped
       IN  /\ \A i, j \in DOMAIN all :
                SameRoutineAndDay(all[i], all[j])
                => /\ BucketsOf(g, all[i]) = BucketsOf(g, all[j])
                   /\ \E b \in BucketsOf(g, all[i]) :
                        /\ BucketsOf(g, all[i]) = {b}
                        /\ g[b[1]].routine_id = all[i].routine_id
                        /\ g[b[1]].dates[b[2]].workout_date
                             = CalendarDays[CalendarDay(all[i].date)]
           /\ \A r \in DOMAIN g : \A d \in DOMAIN g[r].dates :
                d > 1 => StrLess(g[r].dates[d].workout_date, g[r].dates[d - 1].workout_date)

\* two rows of one routine, one day and different times of day were grouped,
\* and their routine has a second date bucket
C9_Witness ==
    /\ last.op = "view_history"
    /\ \E i, j \in DOMAIN last.all_workouts :
         /\ SameRoutineAndDay(last.all_workouts[i], last.all_workouts[j])
         /\ last.all_workouts[i].date # last.all_workouts[j].date
         /\ \E r \in DOMAIN last.page.grouped :
              /\ last.page.grouped[r].routine_id = last.all_workouts[i].routine_id
              /\ Len(last.page.grouped[r].dates) = 2

\* C10: _norm_name is idempotent: for every input text, the empty text, a text
\* of whitespace only and null included, applying it to its own result gives
\* that result again.
C10_Idempotent ==
    last.op = "_norm_name" /\ last.nth = 2
    => last.s = _norm_name(last.first) /\ last.ret = last.s

\* the normalizer was applied twice to " A<tab> b" and gave "a b" both times
C10_Witness ==
    /\ last.op = "_norm_name" /\ last.nth = 2
    /\ last.first = <<" ", "A", "\t", " ", "b">>
    /\ last.s = <<"a", " ", "b">>
    /\ last.ret = <<"a", " ", "b">>

\* s and t, neither starting with whitespace, read side by side: a letter
\* faces the same letter in either case, a run of whitespace between two
\* words faces a run of whitespace, and whitespace at the end faces the end
RECURSIVE SameWordsFrom(_, _)
SameWordsFrom(s, t) ==
    LET ws(x) == x # <<>> /\ Head(x) \in Whitespace
    IN  IF s = <<>> \/ t = <<>> THEN s = t
        ELSE /\ LowerChar(Head(s)) = LowerChar(Head(t))
             /\ IF ws(Tail(s)) = ws(Tail(t))
                THEN SameWordsFrom(lstrip(Tail(s)), lstrip(Tail(t)))
                ELSE lstrip(Tail(s)) = <<>> /\ lstrip(Tail(t)) = <<>>

\* s and t differ only in letter case and in the amount of whitespace around
\* or between their words
SameWords(s, t) == SameWordsFrom(lstrip(s), lstrip(t))

\* C11: the key _norm_name gives has no leading or trailing whitespace, no
\* whitespace between words other than one space and no upper-case letter, and
\* every text that differs from the input only in letter case and in the amount
\* of whitespace around or between its words has the same key.
C11_NormalizedKey ==
    last.op = "_norm_name"
    => LET key == last.ret
       IN  /\ key # <<>> => key[1] \notin Whitespace /\ key[Len(key)] \notin Whitespace
           /\ \A i \in DOMAIN key :
                /\ LowerChar(key[i]) = key[i]
                /\ key[i] \in Whitespace => key[i] = " " /\ key[i + 1] \notin Whitespace
           /\ last.s # None
              => \A t \in Texts(MaxPeer) : SameWords(last.s, t) => _norm_name(t) = key

\* the key "a b" was given for "<tab>A  b", which differs from "a b" and from
\* "A b" only in letter case and whitespace
C11_Witness ==
    /\ last.op = "_norm_name" /\ last.nth = 1
    /\ last.s = <<"\t", "A", " ", " ", "b">>
    /\ last.ret = <<"a", " ", "b">>
    /\ SameWords(last.s, <<"a", " ", "b">>) /\ SameWords(last.s, <<"A", "\t", "b">>)
    /\ ~SameWords(last.s, <<"a", "b">>) /\ ~SameWords(last.s, <<"a", " ", "a">>)

\* the row w carries the routine, the routine exercise e it was logged for and
\* one of the sets a session may enter
LoggedFor(w, routine, e) ==
    /\ w.routine_id = routine.id
    /\ w.routine_exercise_id = e.id
    /\ w.exercise_name = e.exercise_name /\ w.target_muscle = e.target_muscle
    /\ w.notes = ""
    /\ \E set_data \in SetInputs :
         w.reps = set_data.reps /\ w.weight = set_data.weight
         /\ w.effort_level = set_data.effort

\* C12: every workout row a log persists records the routine exercise it was
\* logged for: its routine_id is the selected routine's id and its
\* routine_exercise_id is the id of one of the routine's fetched exercises,
\* whose name and muscle it carries, with the entry's notes and the reps,
\* weight and effort of an entered set.
C12_RowsCarryExerciseIdentity ==
    [][LogPass(last'.op)
       => \A w \in workouts' \ workouts :
            \E e \in Range(sess[last'.session].exercises) :
               /\ e.id = last'.pass.details.ex_id
               /\ LoggedFor(w, sess[last'.session].selected[1], e)]_vars

\* the messages of a submission rejected by validation
Rejections == {FillInAllFields, PasswordsDoNotMatch, PasswordTooShort, UsernameAlreadyExists}

\* C13: sign-up never creates or overwrites an entry for a username that is
\* already in the credentials mapping: when the handler stores an entry, the
\* mapping has no entry under that username, and every entry it has stays as
\* it is; a submission rejected by validation (missing field, password
\* mismatch, password shorter than 6 characters, existing username) leaves
\* the credentials mapping unchanged.
C13_ExistingUsernameKept ==
    [][/\ last'.op = "sign_up_store"
          => /\ last'.new_username \notin DOMAIN config.usernames
             /\ \A u \in DOMAIN config.usernames :
                   config'.usernames[u] = config.usernames[u]
       /\ (last'.op = "sign_up" /\ last'.message \in Rejections)
          => config' = config]_vars

\* the routines table holds two routines of one user on one weekday
TwoRoutinesOnOneDay ==
    \E a, b \in routines : a.id # b.id /\ a.user_id = b.user_id /\ a.day_name = b.day_name

\* C14: the one-routine-per-weekday check is made on the list the session
\* read, not on the table: a submission whose fetched list has no routine on
\* the chosen weekday inserts a routine for that weekday when the storage does
\* not fail, whatever another session has inserted since the list was read; so
\* two sessions of one user that both read the list before either inserts
\* leave the user with two routines on that weekday.
C14_CheckThenActRace ==
    [][\A s \in Sessions :
         (last'.op = "create_routine_form" /\ last'.session = s
            /\ ~DayInFetched(s, last'.day_name) /\ supabase = "client"
            /\ \A i \in DOMAIN last'.calls : ~last'.calls[i].fault)
         => /\ Len(last'.calls) = 1 /\ last'.message = "Routine created"
            /\ \E r \in routines' \ routines :
                 /\ routines' = routines \cup {r}
                 /\ r.user_id = Username[s] /\ r.day_name = last'.day_name
            /\ (\E r \in routines : r.user_id = Username[s] /\ r.day_name = last'.day_name)
               => TwoRoutinesOnOneDay']_vars

\* a second session's submission was accepted for a weekday that already had a
\* routine of the user: two routines of alice are stored on one weekday
C14_Witness ==
    /\ last.op = "create_routine_form"
    /\ last.message = "Routine created"
    /\ \E a, b \in routines :
         /\ a.id # b.id /\ a.user_id = "alice" /\ b.user_id = "alice"
         /\ a.day_name = last.day_name /\ b.day_name = last.day_name

\* C15: in every state reached by add_routine_exercise calls of concurrent
\* sessions, interleaved request by request, no routine holds two
\* routine_exercises rows whose exercise names are equal after normalization.
C15_UniqueExerciseNames ==
    \A a, b \in routine_exercises :
       (a.id # b.id /\ a.routine_id = b.routine_id)
       => _norm_name(a.exercise_name) # _norm_name(b.exercise_name)

\* a session's insert arrived after another session had inserted the same
\* exercise: the storage did not fail, the unique index refused the row, and
\* the call returned null
C15_Witness ==
    /\ last.op = "add_routine_exercise_insert"
    /\ ~last.calls[1].fault /\ last.calls[1].ret = NULL
    /\ \E e \in routine_exercises :
         e.routine_id = last.args[1] /\ e.exercise_name = last.args[2]

\* the workout row after is the row before with its reference to the routine
\* r, and to the exercises gone with it, set to null and nothing else changed
Unlinked(before, after, r, gone) ==
    /\ after.routine_id = IF before.routine_id = r THEN NULL ELSE before.routine_id
    /\ after.routine_exercise_id
         = IF before.routine_exercise_id \in gone THEN NULL ELSE before.routine_exercise_id
    /\ \A c \in DOMAIN before \ {"routine_id", "routine_exercise_id"} : after[c] = before[c]

\* C16: a delete_routine(r) call during which the storage does not fail
\* removes the routine r and exactly the routine_exercises rows of r; it
\* deletes no workout row: every workout remains stored, those that referenced
\* r or one of its exercises with that routine_id / routine_exercise_id set to
\* null, and every other routine, routine exercise and workout is unchanged.
C16_DeleteRoutineFrame ==
    [][(last'.op = "delete_routine" /\ ~last'.calls[1].fault)
       => LET r == last'.args[1]
              gone == {e.id : e \in {x \in routine_exercises : x.routine_id = r}}
          IN  /\ last'.calls[1].ret = TRUE
              /\ routines' = {x \in routines : x.id # r}
              /\ routine_exercises' = {e \in routine_exercises : e.routine_id # r}
              /\ Cardinality(workouts') = Cardinality(workouts)
              /\ \A w \in workouts :
                   \E v \in workouts' : v.id = w.id /\ Unlinked(w, v, r, gone)]_vars

\* routine 1 was deleted: its exercises are gone with it, and a workout is
\* still stored, referencing no routine and no routine exercise
C16_Witness ==
    /\ last.op = "delete_routine" /\ last.args = <<1>> /\ last.calls[1].ret = TRUE
    /\ serial.routines >= 1 /\ \A r \in routines : r.id # 1
    /\ serial.routine_exercises >= 1 /\ routine_exercises = {}
    /\ \E w \in workouts : w.routine_id = NULL /\ w.routine_exercise_id = NULL

\* the text is in normalized form
Normalized(name) == _norm_name(name) = name

\* C17: in every state reached by create_routine, add_routine_exercise,
\* add_workout and update_workout calls (and the other methods), every stored
\* routine name, routine-exercise name and workout exercise name is a fixed
\* point of _norm_name.
C17_StoredNamesNormalized ==
    /\ \A r \in routines : Normalized(r.routine_name)
    /\ \A e \in routine_exercises : Normalized(e.exercise_name)
    /\ \A w \in workouts : Normalized(w.exercise_name)

\* a routine, a routine exercise and a workout are stored, the workout's name
\* last written by update_workout from "B  a"
C17_Witness ==
    /\ last.op = "update_workout" /\ last.calls[1].ret = TRUE
    /\ "exercise_name" \in DOMAIN last.args[2]
    /\ ~Normalized(last.args[2].exercise_name)
    /\ \E w \in workouts : w.id = last.args[1] /\ w.exercise_name = <<"b", " ", "a">>
    /\ \E r \in routines : r.routine_name = <<"a", " ", "b">>
    /\ \E e \in routine_exercises : e.exercise_name = <<"a">>

\* the places <<routine entry, date entry, exercise entry, set>> of the grouped
\* history that show the row w
Occurrences(grouped, w) ==
    UNION {UNION {UNION {{<<r, d, e, k>> :
                            k \in {n \in DOMAIN grouped[r].dates[d].exercises[e].sets :
                                     grouped[r].dates[d].exercises[e].sets[n] = w}} :
                         e \in DOMAIN grouped[r].dates[d].exercises} :
                  d \in DOMAIN grouped[r].dates} :
           r \in DOMAIN grouped}

\* C18: a fetched workout row is shown in the grouped history if and only if
\* its routine_id is not null, and then exactly once, under the entry of its
\* own routine id, its own calendar date and its own exercise name; a row
\* without a routine id is shown nowhere, and the view shows no other row.
C18_GroupedIffLinked ==
    last.op = "view_history"
    => LET g == last.page.grouped
       IN  /\ RowsInHistory(g) \subseteq Range(last.all_workouts)
           /\ \A w \in Range(last.all_workouts) :
                IF w.routine_id = NULL THEN Occurrences(g, w) = {}
                ELSE /\ Cardinality(Occurrences(g, w)) = 1
                     /\ \A o \in Occurrences(g, w) :
                          /\ g[o[1]].routine_id = w.routine_id
                          /\ g[o[1]].dates[o[2]].workout_date
                               = CalendarDays[CalendarDay(w.date)]
                          /\ g[o[1]].dates[o[2]].exercises[o[3]].exercise_name
                               = w.exercise_name

\* the history grouped a fetched list with a row that has no routine id and
\* two rows that have one: the view shows the two
C18_Witness ==
    /\ last.op = "view_history"
    /\ Len(last.all_workouts) = 3
    /\ \E w \in Range(last.all_workouts) : w.routine_id = NULL
    /\ Cardinality(RowsInHistory(last.page.grouped)) = 2

=============================================================================
